---- MODULE Spec2Model ----
(***************************************************************************)
(* The enhanced STOMP SharedWorker (src/assets/stomp-worker-enhanced.js):  *)
(* the registry of ProviderConnection objects, each provider's            *)
(* connect / snapshot / realtime state machine, the snapshot cache and the *)
(* request gateway of the consumer ports.                                  *)
(*                                                                         *)
(* One action is one task of the worker's event loop: a port message       *)
(* handler up to its first timer, the continuation of handleRefresh after  *)
(* its settling delay, or one callback of the StompJs client.  An `await`  *)
(* on an already settled promise only yields to the microtask queue, so    *)
(* it does not end an action.                                              *)
(*                                                                         *)
(* The StompJs client library is the environment.  A client is            *)
(* "activating" between activate() and its onConnect (also while the      *)
(* library waits to reconnect after a lost socket), "connected" after     *)
(* onConnect, "deactivating" after deactivate() on a connected client     *)
(* until the broker's receipt lets the library call onDisconnect, and     *)
(* "free" otherwise.                                                      *)
(*                                                                         *)
(* Left out: timestamps (lastUpdate, snapshotStartTime, duration), the    *)
(* byte and connect/disconnect counters of statistics, and the insertion  *)
(* order of the cache Map (getSnapshot is modelled in key order).          *)
(***************************************************************************)
EXTENDS Integers, Sequences, FiniteSets, TLC

\* ------------------------------------------------------------------ bounds

\* Caps of snapshotRowsReceived and of updateRowsReceived under Spec: a
\* frame that would take a counter above its cap is not delivered.
MaxRows == 2
MaxUpdates == 1
\* The cap of both counters under SpecRace.
MaxRaceRows == 1
\* Number of StompJs.Client instances that can be alive at once.
MaxClients == 2
\* Number of ProviderConnection objects that can be alive at once.
MaxObjs == 1
\* Number of handleRefresh calls that can wait in their settling delay at once.
MaxPending == 1

\* Number of requests a consumer sends.
MaxRequests == 2
\* Number of callbacks of the statistics interval that run.
MaxTicks == 4
\* Cap of stats.lastSecondCount: a message that would take it above the cap
\* does not arrive.
MaxPerPeriod == 2
\* Milliseconds a callback of the statistics interval may run late.
MaxLate == 5
\* Number of subscriptions the StompSharedWorker makes.
MaxSubs == 2

MaxSockets == 3

Ports == {1, 2}
ProviderIds == {"p1"}
Ids == {"x1"}
\* The two definitions of the worker that the source file holds.
Definitions == {1, 2}
ClientIds == 1..MaxClients
ObjIds == 1..MaxObjs

NoObj == 0
NoClient == 0
NoPort == 0
NoId == ""

\* ------------------------------------------------------------ feed records

\* The value a record holds under the key column: "u" is a missing (or
\* null) field, "n1" the number 1, "s1" the string "1", "s2" the string "2".
StringOf(k) == IF k = "s2" THEN "2" ELSE "1"

MapKeys == {"1", "2"}

Rec(id, v) == [null |-> FALSE, id |-> id, v |-> v]
\* JSON null where a record is expected.
NullRec == [null |-> TRUE, id |-> "u", v |-> 0]
\* No entry under a key of the cache Map.
Absent == [null |-> TRUE, id |-> "absent", v |-> 0]

\* A frame body: whether JSON.parse accepts it, the parsed value (`value`
\* is the sequence of elements, `isArray` tells a JSON array from a single
\* value), and which of the marker words its trimmed, lower-cased text
\* contains.
Body(json, isArray, value, words) ==
    [json |-> json, isArray |-> isArray, value |-> value, words |-> words]

Feed ==
    { Body(TRUE, FALSE, <<Rec("s1", 10)>>, {}),                \* {"id":"1","v":10}
      Body(TRUE, FALSE, <<Rec("s2", 20)>>, {}),                \* {"id":"2","v":20}
      Body(TRUE, FALSE, <<Rec("n1", 99)>>, {}),                \* {"id":1,"v":99}
      Body(TRUE, FALSE, <<Rec("u", 10)>>, {}),                 \* {"v":10}
      Body(TRUE, FALSE, <<Rec("u", 20)>>, {"success"}),        \* {"v":20,"status":"success"}
      Body(TRUE, TRUE, <<Rec("s1", 10), Rec("s2", 20)>>, {}),  \* [{"id":"1","v":10},{"id":"2","v":20}]
      Body(TRUE, TRUE, <<Rec("s2", 20), NullRec>>, {}),        \* [{"id":"2","v":20},null]
      Body(TRUE, TRUE, <<>>, {}),                              \* []
      Body(TRUE, FALSE, <<NullRec>>, {}),                      \* null
      Body(FALSE, FALSE, <<>>, {"success"}),                   \* Success: All 2 records delivered
      Body(FALSE, FALSE, <<>>, {"eos"}),                       \* EOS
      Body(FALSE, FALSE, <<>>, {}) }                           \* hello

\* The bodies the feed sends under SpecRace: one record and the sentinel.
RaceFeed ==
    { Body(TRUE, FALSE, <<Rec("s1", 10)>>, {}),                \* {"id":"1","v":10}
      Body(FALSE, FALSE, <<>>, {"eos"}) }                      \* EOS

NoBody == Body(FALSE, FALSE, <<>>, {"none"})

\* ----------------------------------------------------------------- config

Config(token, keyColumn) == [keyColumn |-> keyColumn, snapshotEndToken |-> token]

\* keyColumn "positionId" is the default taken when the configuration
\* names none; no record of the feed has such a field.
Configs == { Config("EOS", "id"), Config("", "positionId") }

\* The one configuration of the specifications that study interleavings.
RaceConfigs == { Config("EOS", "id") }

ToLowerCase(s) == IF s = "EOS" THEN "eos" ELSE s

VARIABLES
    stompLoaded,     \* whether importScripts made StompJs available
    ports,           \* the ports Map: the ports that connected to the worker
    providers,       \* the providers Map: provider id -> ProviderConnection
    obj,             \* the ProviderConnection objects
    clients,         \* the StompJs.Client instances
    pendingRefresh,  \* the handleRefresh calls waiting in their settling delay
    disconnectCalled,\* history: the objects whose disconnect() has been called
    cycleRows,       \* history: per object, the records of the data frames
                     \* handled since its last onConnect
    keepRecs,        \* whether this behaviour keeps the history cycleRecs
    cycleRecs,       \* history: per object, the records applyUpdatesToSnapshot
                     \* has visited since the cache was last cleared
    cycleComplete,   \* history: the objects whose snapshot-complete event
                     \* has been posted since their last onConnect
    channel,         \* the ports whose channel has failed (the consumer closed
                     \* it, or it reported a message error), and those of
                     \* them on which postMessage throws
    lastOp,          \* the task that ran last
    out,             \* the messages that task posted, in order
    calls,           \* the transport calls that task made, in order
    consumer,        \* a consumer: the client service of one page
    stompWorker,     \* the StompSharedWorker: its connections and stats
    socketWorker,    \* the StompSharedWorker that speaks STOMP over a
                     \* WebSocket of its own
    stream           \* the destinations of one stream, and what they were
                     \* built from

\* The state outside the enhanced worker.
components == <<consumer, stompWorker, socketWorker, stream>>

vars == <<stompLoaded, ports, providers, obj, clients,
          pendingRefresh, disconnectCalled, cycleRows, keepRecs, cycleRecs,
          cycleComplete, channel, lastOp, out, calls, consumer, stompWorker,
          socketWorker, stream>>

\* Every channel works.
AllOpen == [failed |-> {}, throwing |-> {}]

\* ------------------------------------------------------ ProviderConnection

EmptySnapshot == [k \in MapKeys |-> Absent]

BlankObj ==
    [ providerId |-> "",
      config |-> Config("", ""),
      snapshot |-> EmptySnapshot,
      subscribers |-> {},
      connection |-> NoClient,
      subscription |-> NoClient,
      snapshotRowsReceived |-> 0,
      updateRowsReceived |-> 0,
      isConnected |-> FALSE,
      mode |-> "idle",
      isConnecting |-> FALSE,
      isSnapshotComplete |-> FALSE ]

NewProviderConnection(providerId, config) ==
    [BlankObj EXCEPT !.providerId = providerId, !.config = config]

FreeClientRec == [owner |-> NoObj, st |-> "free", sub |-> FALSE]

\* ---------------------------------------------------------------- messages

Msg(id, type, pid) ==
    [ id |-> id, type |-> type, providerId |-> pid, data |-> <<>>,
      isSnapshot |-> FALSE, rowCount |-> 0, error |-> "", success |-> FALSE,
      hasStatistics |-> FALSE ]

Post(w, port, msg) == [w EXCEPT !.out = Append(@, [to |-> port, msg |-> msg])]

Call(w, c, call) == [w EXCEPT !.calls = Append(@, [client |-> c, call |-> call])]

\* The ports of a set in ascending order.
RECURSIVE PortSeq(_)
PortSeq(S) ==
    IF S = {} THEN <<>>
    ELSE LET p == CHOOSE x \in S : \A y \in S : x <= y
         IN <<p>> \o PortSeq(S \ {p})

RECURSIVE PostAll(_, _, _)
PostAll(w, portSeq, msg) ==
    IF portSeq = <<>> THEN w
    ELSE PostAll(Post(w, Head(portSeq), msg), Tail(portSeq), msg)

\* A broadcast that stops after the first subscriber.
Broadcast_FirstOnly(w, o, msg) ==
    IF w.obj[o].subscribers = {} THEN w
    ELSE Post(w, Head(PortSeq(w.obj[o].subscribers)), msg)

\* broadcast: the forEach posts the message to each subscriber; a
\* postMessage that throws is caught and the port is deleted from the
\* subscribers.
Broadcast(w, o, msg) ==
    [PostAll(w, PortSeq(w.obj[o].subscribers \ channel.throwing), msg)
        EXCEPT !.obj[o].subscribers = @ \ channel.throwing]


\* An isEndToken that looks for the configured token only.
IsEndToken_TokenOnly(config, body) ==
    IF config.snapshotEndToken = "" THEN FALSE
    ELSE ToLowerCase(config.snapshotEndToken) \in body.words

\* isEndToken
IsEndToken(config, body) ==
    IF config.snapshotEndToken = "" THEN FALSE
    ELSE \/ ToLowerCase(config.snapshotEndToken) \in body.words
         \/ "success" \in body.words

\* update[keyColumn]: the records of the feed hold their key under "id".
KeyOf(update, keyColumn) == IF keyColumn = "id" THEN update.id ELSE "u"

\* An applyUpdatesToSnapshot that keeps the record a key already has.
RECURSIVE ApplyUpdatesToSnapshot_KeepFirst(_, _, _)
ApplyUpdatesToSnapshot_KeepFirst(snapshot, updates, keyColumn) ==
    IF updates = <<>> THEN [snapshot |-> snapshot, threw |-> FALSE]
    ELSE LET update == Head(updates)
             key == KeyOf(update, keyColumn)
         IN IF update.null THEN [snapshot |-> snapshot, threw |-> TRUE]
            ELSE ApplyUpdatesToSnapshot_KeepFirst(
                     IF key # "u" /\ snapshot[StringOf(key)] = Absent
                     THEN [snapshot EXCEPT ![StringOf(key)] = update]
                     ELSE snapshot,
                     Tail(updates), keyColumn)

\* An applyUpdatesToSnapshot that removes the entry of a key that is cached.
RECURSIVE ApplyUpdatesToSnapshot_Toggle(_, _, _)
ApplyUpdatesToSnapshot_Toggle(snapshot, updates, keyColumn) ==
    IF updates = <<>> THEN [snapshot |-> snapshot, threw |-> FALSE]
    ELSE LET update == Head(updates)
             key == KeyOf(update, keyColumn)
         IN IF update.null THEN [snapshot |-> snapshot, threw |-> TRUE]
            ELSE ApplyUpdatesToSnapshot_Toggle(
                     IF key # "u"
                     THEN [snapshot EXCEPT ![StringOf(key)] =
                               IF @ = Absent THEN update ELSE Absent]
                     ELSE snapshot,
                     Tail(updates), keyColumn)

\* An applyUpdatesToSnapshot that caches a record without a key too.
RECURSIVE ApplyUpdatesToSnapshot_StoreKeyless(_, _, _)
ApplyUpdatesToSnapshot_StoreKeyless(snapshot, updates, keyColumn) ==
    IF updates = <<>> THEN [snapshot |-> snapshot, threw |-> FALSE]
    ELSE LET update == Head(updates)
             key == KeyOf(update, keyColumn)
         IN IF update.null THEN [snapshot |-> snapshot, threw |-> TRUE]
            ELSE ApplyUpdatesToSnapshot_StoreKeyless(
                     [snapshot EXCEPT ![StringOf(key)] = update],
                     Tail(updates), keyColumn)

\* applyUpdatesToSnapshot: the cache after the forEach, and whether the
\* forEach threw (reading a property of null) and stopped there.
RECURSIVE ApplyUpdatesToSnapshot(_, _, _)
ApplyUpdatesToSnapshot(snapshot, updates, keyColumn) ==
    IF updates = <<>> THEN [snapshot |-> snapshot, threw |-> FALSE]
    ELSE LET update == Head(updates)
             key == KeyOf(update, keyColumn)
         IN IF update.null THEN [snapshot |-> snapshot, threw |-> TRUE]
            ELSE ApplyUpdatesToSnapshot(
                     IF key # "u"
                     THEN [snapshot EXCEPT ![StringOf(key)] = update]
                     ELSE snapshot,
                     Tail(updates), keyColumn)

\* A getSnapshot that returns the first cached record only.
GetSnapshot_FirstOnly(snapshot) ==
    IF snapshot["1"] # Absent THEN <<snapshot["1"]>>
    ELSE IF snapshot["2"] # Absent THEN <<snapshot["2"]>>
    ELSE <<>>

\* getSnapshot: Array.from(this.snapshot.values())
GetSnapshot(snapshot) ==
    (IF snapshot["1"] # Absent THEN <<snapshot["1"]>> ELSE <<>>)
    \o (IF snapshot["2"] # Absent THEN <<snapshot["2"]>> ELSE <<>>)

SnapshotSize(snapshot) == Cardinality({k \in MapKeys : snapshot[k] # Absent})

\* `slots` is the number of clients that may be alive at once.
HasFreeClient(w, slots) == \E c \in 1..slots : w.clients[c].st = "free"

FreeClient(w) ==
    CHOOSE c \in ClientIds :
        /\ w.clients[c].st = "free"
        /\ \A d \in ClientIds : w.clients[d].st = "free" => c <= d

\* connect(): the guard, the construction of the StompJs client and its
\* activation; the callbacks it installs are the Transport actions below.
\* w.err is the message of the error the call threw, "" when it returned.
ProviderConnect(w, o) ==
    IF w.obj[o].isConnecting \/ w.obj[o].isConnected THEN w
    ELSE IF ~stompLoaded
    THEN [w EXCEPT !.obj[o].isConnecting = FALSE,
                   !.err = "StompJs is not defined"]
    ELSE LET c == FreeClient(w)
         IN Call([w EXCEPT !.obj[o].isConnecting = TRUE,
                           !.obj[o].connection = c,
                           !.clients[c] = [owner |-> o, st |-> "activating",
                                           sub |-> FALSE]],
                 c, "activate")

\* Whether connect() would construct a client.
WouldActivate(w, o) ==
    ~w.obj[o].isConnecting /\ ~w.obj[o].isConnected /\ stompLoaded

\* deactivate() on a client: a connected client sends DISCONNECT and waits
\* for the receipt, a client that is not connected just drops its socket.
Deactivated(cl) ==
    IF cl.st = "connected" THEN [cl EXCEPT !.st = "deactivating"]
    ELSE IF cl.st = "activating" THEN FreeClientRec
    ELSE cl

\* disconnect()
ProviderDisconnect(w, o) ==
    LET s == w.obj[o].subscription
        c == w.obj[o].connection
        w1 == IF s # NoClient
              THEN Call([w EXCEPT !.clients[s].sub =
                                      IF w.clients[s].st = "connected"
                                      THEN FALSE ELSE @,
                                  !.obj[o].subscription = NoClient],
                        s, "unsubscribe")
              ELSE w
        w2 == IF c # NoClient
              THEN Call([w1 EXCEPT !.clients[c] = Deactivated(@),
                                   !.obj[o].connection = NoClient],
                        c, "deactivate")
              ELSE w1
    IN [w2 EXCEPT !.obj[o].isConnected = FALSE,
                  !.obj[o].mode = "idle",
                  !.obj[o].isConnecting = FALSE]

\* An onConnect that keeps the cache of the previous cycle.
OnConnect_KeepCache(w, o, c) ==
    LET w1 == [w EXCEPT !.obj[o].isConnected = TRUE,
                        !.obj[o].mode = "snapshot",
                        !.obj[o].isConnecting = FALSE,
                        !.obj[o].snapshotRowsReceived = 0,
                        !.obj[o].isSnapshotComplete = FALSE,
                        !.clients[c].st = "connected"]
        w2 == Broadcast(w1, o, Msg(NoId, "connected", w.obj[o].providerId))
        w3 == Call([w2 EXCEPT !.obj[o].subscription = c,
                              !.clients[c].sub = TRUE],
                   c, "subscribe")
    IN Call(w3, c, "publish")

\* An onConnect that keeps the snapshot row counter of the previous cycle.
OnConnect_KeepRows(w, o, c) ==
    LET w1 == [w EXCEPT !.obj[o].isConnected = TRUE,
                        !.obj[o].mode = "snapshot",
                        !.obj[o].isConnecting = FALSE,
                        !.obj[o].snapshot = EmptySnapshot,
                        !.obj[o].isSnapshotComplete = FALSE,
                        !.clients[c].st = "connected"]
        w2 == Broadcast(w1, o, Msg(NoId, "connected", w.obj[o].providerId))
        w3 == Call([w2 EXCEPT !.obj[o].subscription = c,
                              !.clients[c].sub = TRUE],
                   c, "subscribe")
    IN Call(w3, c, "publish")

\* The onConnect callback of client c, installed by connect() of object o.
OnConnect(w, o, c) ==
    LET w1 == [w EXCEPT !.obj[o].isConnected = TRUE,
                        !.obj[o].mode = "snapshot",
                        !.obj[o].isConnecting = FALSE,
                        !.obj[o].snapshot = EmptySnapshot,
                        !.obj[o].snapshotRowsReceived = 0,
                        !.obj[o].isSnapshotComplete = FALSE,
                        !.clients[c].st = "connected"]
        w2 == Broadcast(w1, o, Msg(NoId, "connected", w.obj[o].providerId))
        w3 == Call([w2 EXCEPT !.obj[o].subscription = c,
                              !.clients[c].sub = TRUE],
                   c, "subscribe")
    IN Call(w3, c, "publish")

\* The onDisconnect callback of client c, installed by connect() of object o.
OnDisconnect(w, o, c) ==
    Broadcast([w EXCEPT !.obj[o].isConnected = FALSE,
                        !.obj[o].mode = "idle",
                        !.obj[o].isConnecting = FALSE,
                        !.clients[c] = FreeClientRec],
              o, Msg(NoId, "disconnected", w.obj[o].providerId))

\* An error callback that also clears the cache.
OnError_ClearCache(w, o, reason) ==
    Broadcast([w EXCEPT !.obj[o].snapshot = EmptySnapshot],
              o, [Msg(NoId, "error", w.obj[o].providerId) EXCEPT !.error = reason])

\* The onStompError and onWebSocketError callbacks.
OnError(w, o, reason) ==
    Broadcast(w, o, [Msg(NoId, "error", w.obj[o].providerId) EXCEPT !.error = reason])

\* Array.isArray(data) ? data : [data] (the `value` of a body that is not an
\* array holds the one parsed value)
Positions(body) == IF body.isArray THEN body.value ELSE <<Head(body.value)>>

\* A handleMessage that reports a body JSON.parse rejects as an error.
HandleMessage_ReportParseError(w, o, body) ==
    LET ob == w.obj[o]
    IN IF ~ob.isSnapshotComplete /\ IsEndToken(ob.config, body)
       THEN Broadcast([w EXCEPT !.obj[o].isSnapshotComplete = TRUE,
                                !.obj[o].mode = "realtime"],
                      o, [Msg(NoId, "snapshot-complete", ob.providerId)
                              EXCEPT !.rowCount = ob.snapshotRowsReceived])
       ELSE IF ~body.json
       THEN Broadcast(w, o, [Msg(NoId, "error", ob.providerId)
                                 EXCEPT !.error = "SyntaxError"])
       ELSE LET positions == Positions(body)
                applied == ApplyUpdatesToSnapshot(ob.snapshot, positions,
                                                  ob.config.keyColumn)
                w1 == IF ob.isSnapshotComplete
                      THEN [w EXCEPT !.obj[o].updateRowsReceived =
                                         @ + Len(positions),
                                     !.obj[o].snapshot = applied.snapshot]
                      ELSE [w EXCEPT !.obj[o].snapshotRowsReceived =
                                         @ + Len(positions),
                                     !.obj[o].snapshot = applied.snapshot]
            IN IF applied.threw
               THEN Broadcast(w1, o, [Msg(NoId, "error", ob.providerId)
                                          EXCEPT !.error = "TypeError"])
               ELSE Broadcast(w1, o, [Msg(NoId, "data", ob.providerId)
                                          EXCEPT !.data = positions,
                                                 !.isSnapshot = ~ob.isSnapshotComplete])

\* A handleMessage that takes every frame with an end token as the end of
\* the snapshot.
HandleMessage_EveryToken(w, o, body) ==
    LET ob == w.obj[o]
    IN IF IsEndToken(ob.config, body)
       THEN Broadcast([w EXCEPT !.obj[o].isSnapshotComplete = TRUE,
                                !.obj[o].mode = "realtime"],
                      o, [Msg(NoId, "snapshot-complete", ob.providerId)
                              EXCEPT !.rowCount = ob.snapshotRowsReceived])
       ELSE IF ~body.json THEN w
       ELSE LET positions == Positions(body)
                applied == ApplyUpdatesToSnapshot(ob.snapshot, positions,
                                                  ob.config.keyColumn)
                w1 == IF ob.isSnapshotComplete
                      THEN [w EXCEPT !.obj[o].updateRowsReceived =
                                         @ + Len(positions),
                                     !.obj[o].snapshot = applied.snapshot]
                      ELSE [w EXCEPT !.obj[o].snapshotRowsReceived =
                                         @ + Len(positions),
                                     !.obj[o].snapshot = applied.snapshot]
            IN IF applied.threw
               THEN Broadcast(w1, o, [Msg(NoId, "error", ob.providerId)
                                          EXCEPT !.error = "TypeError"])
               ELSE Broadcast(w1, o, [Msg(NoId, "data", ob.providerId)
                                          EXCEPT !.data = positions,
                                                 !.isSnapshot = ~ob.isSnapshotComplete])

\* handleMessage
HandleMessage(w, o, body) ==
    LET ob == w.obj[o]
    IN IF ~ob.isSnapshotComplete /\ IsEndToken(ob.config, body)
       THEN Broadcast([w EXCEPT !.obj[o].isSnapshotComplete = TRUE,
                                !.obj[o].mode = "realtime"],
                      o, [Msg(NoId, "snapshot-complete", ob.providerId)
                              EXCEPT !.rowCount = ob.snapshotRowsReceived])
       ELSE IF ~body.json THEN w
       ELSE LET positions == Positions(body)
                applied == ApplyUpdatesToSnapshot(ob.snapshot, positions,
                                                  ob.config.keyColumn)
                w1 == IF ob.isSnapshotComplete
                      THEN [w EXCEPT !.obj[o].updateRowsReceived =
                                         @ + Len(positions),
                                     !.obj[o].snapshot = applied.snapshot]
                      ELSE [w EXCEPT !.obj[o].snapshotRowsReceived =
                                         @ + Len(positions),
                                     !.obj[o].snapshot = applied.snapshot]
            IN IF applied.threw
               THEN Broadcast(w1, o, [Msg(NoId, "error", ob.providerId)
                                          EXCEPT !.error = "TypeError"])
               ELSE Broadcast(w1, o, [Msg(NoId, "data", ob.providerId)
                                          EXCEPT !.data = positions,
                                                 !.isSnapshot = ~ob.isSnapshotComplete])


\* ------------------------------------------------------------ port handlers

\* The worker's heap at the start of a task.
W0 ==
    [ providers |-> providers, obj |-> obj, clients |-> clients,
      out |-> <<>>, calls |-> <<>>, err |-> "" ]

FreeObj(w) ==
    CHOOSE o \in ObjIds :
        /\ w.obj[o] = BlankObj
        /\ \A q \in ObjIds : w.obj[q] = BlankObj => o <= q

HasFreeObj(w) == \E o \in ObjIds : w.obj[o] = BlankObj

Response(id) == [Msg(id, "response", "") EXCEPT !.success = TRUE]

\* A handleConnect that replaces the subscribers of the session by the
\* requesting port.
HandleConnectBody_ReplaceSubscribers(w, port, providerId, config) ==
    LET known == w.providers[providerId] # NoObj
        o == IF known THEN w.providers[providerId] ELSE FreeObj(w)
        w1 == IF known THEN w
              ELSE [w EXCEPT !.providers[providerId] = o,
                             !.obj[o] = NewProviderConnection(providerId, config)]
        w2 == [w1 EXCEPT !.obj[o].subscribers = {port}]
        ob == w2.obj[o]
    IN IF ~ob.isConnected /\ ~ob.isConnecting THEN ProviderConnect(w2, o)
       ELSE IF ob.isConnected
       THEN LET w3 == Post(w2, port, Msg(NoId, "connected", providerId))
            IN IF SnapshotSize(ob.snapshot) > 0
               THEN Post(w3, port, [Msg(NoId, "data", providerId)
                                        EXCEPT !.data = GetSnapshot(ob.snapshot),
                                               !.isSnapshot = FALSE])
               ELSE w3
       ELSE w2

\* A handleConnect that gives an existing session the configuration of the
\* request.
HandleConnectBody_AdoptConfig(w, port, providerId, config) ==
    LET known == w.providers[providerId] # NoObj
        o == IF known THEN w.providers[providerId] ELSE FreeObj(w)
        w1 == IF known THEN [w EXCEPT !.obj[o].config = config]
              ELSE [w EXCEPT !.providers[providerId] = o,
                             !.obj[o] = NewProviderConnection(providerId, config)]
        w2 == [w1 EXCEPT !.obj[o].subscribers = @ \cup {port}]
        ob == w2.obj[o]
    IN IF ~ob.isConnected /\ ~ob.isConnecting THEN ProviderConnect(w2, o)
       ELSE IF ob.isConnected
       THEN LET w3 == Post(w2, port, Msg(NoId, "connected", providerId))
            IN IF SnapshotSize(ob.snapshot) > 0
               THEN Post(w3, port, [Msg(NoId, "data", providerId)
                                        EXCEPT !.data = GetSnapshot(ob.snapshot),
                                               !.isSnapshot = FALSE])
               ELSE w3
       ELSE w2

\* handleConnect through the line before its response message.
HandleConnectBody(w, port, providerId, config) ==
    LET known == w.providers[providerId] # NoObj
        o == IF known THEN w.providers[providerId] ELSE FreeObj(w)
        w1 == IF known THEN w
              ELSE [w EXCEPT !.providers[providerId] = o,
                             !.obj[o] = NewProviderConnection(providerId, config)]
        w2 == [w1 EXCEPT !.obj[o].subscribers = @ \cup {port}]
        ob == w2.obj[o]
    IN IF ~ob.isConnected /\ ~ob.isConnecting THEN ProviderConnect(w2, o)
       ELSE IF ob.isConnected
       THEN LET w3 == Post(w2, port, Msg(NoId, "connected", providerId))
            IN IF SnapshotSize(ob.snapshot) > 0
               THEN Post(w3, port, [Msg(NoId, "data", providerId)
                                        EXCEPT !.data = GetSnapshot(ob.snapshot),
                                               !.isSnapshot = FALSE])
               ELSE w3
       ELSE w2

\* handleConnect.  The file defines it twice: the first definition ends by
\* posting the response with the request's id, the second definition has no
\* such statement (and no messageId parameter).  `definition` is the one
\* that runs.
HandleConnect(w, port, providerId, config, messageId, definition) ==
    LET w1 == HandleConnectBody(w, port, providerId, config)
    IN IF w1.err = "" /\ definition = 1 THEN Post(w1, port, Response(messageId))
       ELSE w1

\* A handleDisconnect that throws for a provider id without a session, the
\* way handleRefresh does.
HandleDisconnect_Strict(w, providerId) ==
    LET o == w.providers[providerId]
    IN IF o = NoObj THEN [w EXCEPT !.err = "Provider not connected"]
       ELSE [ProviderDisconnect(w, o) EXCEPT !.providers[providerId] = NoObj]

\* handleDisconnect
HandleDisconnect(w, providerId) ==
    LET o == w.providers[providerId]
    IN IF o = NoObj THEN w
       ELSE [ProviderDisconnect(w, o) EXCEPT !.providers[providerId] = NoObj]

\* handleRefresh up to its setTimeout.
HandleRefreshBegin(w, providerId) ==
    LET o == w.providers[providerId]
    IN IF o = NoObj THEN [w EXCEPT !.err = "Provider not connected"]
       ELSE ProviderDisconnect(w, o)

\* A handleRefresh that does not connect again.
HandleRefreshEnd_NoConnect(w, o) == w

\* handleRefresh after its setTimeout.
HandleRefreshEnd(w, o) == ProviderConnect(w, o)

\* handleGetSnapshot
HandleGetSnapshot(w, providerId) ==
    LET o == w.providers[providerId]
    IN IF o = NoObj THEN <<>> ELSE GetSnapshot(w.obj[o].snapshot)

\* handleGetStatistics: whether it returns a statistics object (not null).
HandleGetStatistics(w, providerId) == w.providers[providerId] # NoObj

\* A catch that reports the error to every open port.
Caught_ToEveryPort(w, port, id) ==
    [PostAll(w, PortSeq(ports), [Msg(id, "error", "") EXCEPT !.error = w.err])
        EXCEPT !.err = ""]

\* The catch of handlePortMessage.
Caught(w, port, id) ==
    [Post(w, port, [Msg(id, "error", "") EXCEPT !.error = w.err]) EXCEPT !.err = ""]

\* An object is kept while the registry, a suspended handleRefresh or a
\* client's callbacks refer to it.
Referenced(w, pend, o) ==
    \/ \E pid \in ProviderIds : w.providers[pid] = o
    \/ \E e \in pend : e.o = o
    \/ \E c \in ClientIds : w.clients[c].owner = o

\* The task that ran: `config` is the configuration a connect request
\* carried.
Op(op, port, pid, id, o, c, body) ==
    [op |-> op, port |-> port, pid |-> pid, id |-> id, o |-> o, c |-> c,
     body |-> body, config |-> Config("", "")]

\* A frame that handleMessage takes as data: the end-token test did not
\* consume it and JSON.parse accepted it.
ClassifiedData(ob, body) ==
    /\ ~(~ob.isSnapshotComplete /\ IsEndToken(ob.config, body))
    /\ body.json

\* The elements of a batch that the forEach of applyUpdatesToSnapshot
\* visits before it throws: those before the first null.
RECURSIVE Visited(_)
Visited(updates) ==
    IF updates = <<>> \/ Head(updates).null THEN <<>>
    ELSE <<Head(updates)>> \o Visited(Tail(updates))

Commit(w, pend, op) ==
    /\ providers' = w.providers
    /\ clients' = w.clients
    /\ pendingRefresh' = pend
    /\ obj' = [o \in ObjIds |->
                 IF Referenced(w, pend, o) THEN w.obj[o] ELSE BlankObj]
    /\ disconnectCalled' =
           { o \in disconnectCalled \cup
                      (IF op.op \in {"disconnect", "refresh"} /\ op.o # NoObj
                       THEN {op.o} ELSE {}) : Referenced(w, pend, o) }
    /\ cycleRows' =
           [o \in ObjIds |->
               IF ~Referenced(w, pend, o) THEN 0
               ELSE IF op.o # o THEN cycleRows[o]
               ELSE IF op.op = "onConnect" THEN 0
               ELSE IF op.op = "frame" /\ ClassifiedData(obj[o], op.body)
               THEN cycleRows[o] + Len(Positions(op.body))
               ELSE cycleRows[o]]
    /\ cycleRecs' =
           [o \in ObjIds |->
               IF ~keepRecs \/ ~Referenced(w, pend, o) THEN <<>>
               ELSE IF op.o # o THEN cycleRecs[o]
               ELSE IF op.op = "onConnect" THEN <<>>
               ELSE IF op.op = "frame" /\ ClassifiedData(obj[o], op.body)
               THEN cycleRecs[o] \o Visited(Positions(op.body))
               ELSE cycleRecs[o]]
    /\ cycleComplete' =
           { o \in ObjIds :
               /\ Referenced(w, pend, o)
               /\ IF op.o # o THEN o \in cycleComplete
                  ELSE IF op.op = "onConnect" THEN FALSE
                  ELSE \/ o \in cycleComplete
                       \/ \E i \in 1..Len(w.out) :
                              w.out[i].msg.type = "snapshot-complete" }
    /\ out' = w.out
    /\ calls' = w.calls
    /\ lastOp' = op
    /\ UNCHANGED <<stompLoaded, ports, keepRecs, channel>>
    /\ UNCHANGED components

\* self.onconnect: generatePortId numbers the ports in the order they connect.
PortConnect(port) ==
    /\ port \notin ports
    /\ port = Cardinality(ports) + 1
    /\ ports' = ports \cup {port}
    /\ lastOp' = Op("onconnect", port, "", NoId, NoObj, NoClient, NoBody)
    /\ out' = <<>>
    /\ calls' = <<>>
    /\ UNCHANGED <<stompLoaded, providers, obj, clients, pendingRefresh,
                   disconnectCalled, cycleRows, keepRecs, cycleRecs,
                   cycleComplete, channel>>
    /\ UNCHANGED components

\* The consumer of a port closes its channel (the page is closed, or it
\* calls port.close()).  The worker is not told: a MessagePort has no close
\* event.  A later postMessage on the port is discarded by the platform;
\* `throws` tells a platform on which it throws instead.
PortClose(port, throws) ==
    /\ port \in ports \ channel.failed
    /\ channel' = [failed |-> channel.failed \cup {port},
                   throwing |-> channel.throwing \cup
                                    (IF throws THEN {port} ELSE {})]
    /\ lastOp' = Op("port-close", port, "", NoId, NoObj, NoClient, NoBody)
    /\ out' = <<>>
    /\ calls' = <<>>
    /\ UNCHANGED <<stompLoaded, ports, providers, obj, clients, pendingRefresh,
                   disconnectCalled, cycleRows, keepRecs, cycleRecs,
                   cycleComplete>>
    /\ UNCHANGED components

\* port.onmessageerror: a message of the consumer cannot be deserialized.
\* The handler logs the error.
PortMessageError(port) ==
    /\ port \in ports \ channel.failed
    /\ channel' = [channel EXCEPT !.failed = @ \cup {port}]
    /\ lastOp' = Op("messageerror", port, "", NoId, NoObj, NoClient, NoBody)
    /\ out' = <<>>
    /\ calls' = <<>>
    /\ UNCHANGED <<stompLoaded, ports, providers, obj, clients, pendingRefresh,
                   disconnectCalled, cycleRows, keepRecs, cycleRecs,
                   cycleComplete>>
    /\ UNCHANGED components

\* No request of this port with this id is still waiting for its response.
IdUnused(port, id) == \A e \in pendingRefresh : ~(e.port = port /\ e.id = id)

\* handlePortMessage, case 'connect'
ConnectRequest(port, providerId, config, id, definition, slots) ==
    /\ port \in ports \ channel.failed
    /\ IdUnused(port, id)
    /\ providers[providerId] = NoObj => HasFreeObj(W0)
    /\ LET o == IF providers[providerId] # NoObj THEN providers[providerId]
                ELSE FreeObj(W0)
       IN (providers[providerId] = NoObj \/ WouldActivate(W0, o))
              => (~stompLoaded \/ HasFreeClient(W0, slots))
    /\ LET w == HandleConnect(W0, port, providerId, config, id, definition)
           w1 == IF w.err # "" THEN Caught(w, port, id) ELSE w
       IN Commit(w1, pendingRefresh,
                 [Op("connect", port, providerId, id, w.providers[providerId],
                     NoClient, NoBody) EXCEPT !.config = config])

\* handlePortMessage, case 'disconnect'
DisconnectRequest(port, providerId, id) ==
    /\ port \in ports \ channel.failed
    /\ IdUnused(port, id)
    /\ LET w == HandleDisconnect(W0, providerId)
           w1 == IF w.err # "" THEN Caught(w, port, id)
                 ELSE Post(w, port, Response(id))
       IN Commit(w1, pendingRefresh,
                 Op("disconnect", port, providerId, id, providers[providerId],
                    NoClient, NoBody))

\* handlePortMessage, case 'refresh', up to the settling delay of
\* handleRefresh (or to the catch, when handleRefresh throws at once).
RefreshRequest(port, providerId, id) ==
    /\ port \in ports \ channel.failed
    /\ IdUnused(port, id)
    /\ providers[providerId] # NoObj => Cardinality(pendingRefresh) < MaxPending
    /\ LET w == HandleRefreshBegin(W0, providerId)
           op == Op("refresh", port, providerId, id, providers[providerId],
                    NoClient, NoBody)
       IN IF w.err # ""
          THEN Commit(Caught(w, port, id), pendingRefresh, op)
          ELSE Commit(w, pendingRefresh \cup
                             {[port |-> port, id |-> id, o |-> providers[providerId]]},
                      op)

\* The rest of handleRefresh and of handlePortMessage, case 'refresh', once
\* the settling delay has passed.
RefreshResume(e, slots) ==
    /\ e \in pendingRefresh
    /\ WouldActivate(W0, e.o) => HasFreeClient(W0, slots)
    /\ LET w == HandleRefreshEnd(W0, e.o)
           w1 == IF w.err # "" THEN Caught(w, e.port, e.id)
                 ELSE Post(w, e.port, Response(e.id))
       IN Commit(w1, pendingRefresh \ {e},
                 Op("refresh-resume", e.port, obj[e.o].providerId, e.id, e.o,
                    NoClient, NoBody))

\* handlePortMessage, case 'get-snapshot'
GetSnapshotRequest(port, providerId, id) ==
    /\ port \in ports \ channel.failed
    /\ IdUnused(port, id)
    /\ Commit(Post(W0, port, [Msg(id, "response", "")
                                  EXCEPT !.data = HandleGetSnapshot(W0, providerId)]),
              pendingRefresh,
              Op("get-snapshot", port, providerId, id, providers[providerId],
                 NoClient, NoBody))

\* handlePortMessage, case 'get-statistics'
GetStatisticsRequest(port, providerId, id) ==
    /\ port \in ports \ channel.failed
    /\ IdUnused(port, id)
    /\ Commit(Post(W0, port, [Msg(id, "response", "")
                                  EXCEPT !.hasStatistics =
                                             HandleGetStatistics(W0, providerId)]),
              pendingRefresh,
              Op("get-statistics", port, providerId, id, providers[providerId],
                 NoClient, NoBody))

\* handlePortMessage, default case
UnknownRequest(port, id) ==
    /\ port \in ports \ channel.failed
    /\ IdUnused(port, id)
    /\ Commit(Post(W0, port, [Msg(id, "error", "")
                                  EXCEPT !.error = "Unknown message type"]),
              pendingRefresh,
              Op("unknown", port, "", id, NoObj, NoClient, NoBody))

\* -------------------------------------------------------------- transport

\* The library calls onConnect: after activate(), and again each time it
\* has reconnected a lost socket.
TransportOnConnect(c) ==
    /\ clients[c].st = "activating"
    /\ Commit(OnConnect(W0, clients[c].owner, c), pendingRefresh,
              Op("onConnect", NoPort, obj[clients[c].owner].providerId, NoId,
                 clients[c].owner, c, NoBody))

\* The broker's receipt for the DISCONNECT of a deactivated client arrives:
\* the library calls onDisconnect.
TransportOnDisconnect(c) ==
    /\ clients[c].st = "deactivating"
    /\ Commit(OnDisconnect(W0, clients[c].owner, c), pendingRefresh,
              Op("onDisconnect", NoPort, obj[clients[c].owner].providerId, NoId,
                 clients[c].owner, c, NoBody))

\* The socket of a client is lost.  No onWebSocketClose callback is
\* installed; an active client reconnects after reconnectDelay, a
\* deactivating one becomes inactive.
TransportClose(c) ==
    /\ clients[c].st \in {"connected", "deactivating"}
    /\ Commit([W0 EXCEPT !.clients[c] =
                             IF @.st = "connected"
                             THEN [@ EXCEPT !.st = "activating", !.sub = FALSE]
                             ELSE FreeClientRec],
              pendingRefresh,
              Op("close", NoPort, obj[clients[c].owner].providerId, NoId,
                 clients[c].owner, c, NoBody))

\* The library calls onStompError (an ERROR frame of the broker) or
\* onWebSocketError.
TransportError(c, reason) ==
    /\ clients[c].st \in {"activating", "connected"}
    /\ Commit(OnError(W0, clients[c].owner, reason), pendingRefresh,
              Op("onError", NoPort, obj[clients[c].owner].providerId, NoId,
                 clients[c].owner, c, NoBody))

\* The counter a data frame would raise stays within its cap.
WithinRows(ob, body, maxRows, maxUpdates) ==
    IF (~ob.isSnapshotComplete /\ IsEndToken(ob.config, body)) \/ ~body.json
    THEN TRUE
    ELSE IF ob.isSnapshotComplete
    THEN ob.updateRowsReceived + Len(Positions(body)) <= maxUpdates
    ELSE ob.snapshotRowsReceived + Len(Positions(body)) <= maxRows

\* A MESSAGE frame arrives on the subscription of client c.
TransportFrame(c, body, maxRows, maxUpdates) ==
    /\ clients[c].st \in {"connected", "deactivating"}
    /\ clients[c].sub
    /\ WithinRows(obj[clients[c].owner], body, maxRows, maxUpdates)
    /\ Commit(HandleMessage(W0, clients[c].owner, body), pendingRefresh,
              Op("frame", NoPort, obj[clients[c].owner].providerId, NoId,
                 clients[c].owner, c, body))

\* ---------------------------------------------------------------- consumer

\* The two client services: StompClientService keeps a pendingMessages Map,
\* StompClientEnhancedService a 'message' listener per request.
Services == {"StompClientService", "StompClientEnhancedService"}

\* generateMessageId numbers the requests of a consumer.
RequestIds == 1..MaxRequests
NoRequest == 0

\* The requests each service sends.
RequestTypes(service) ==
    IF service = "StompClientService" THEN {"connect", "disconnect"}
    ELSE {"connect", "disconnect", "refresh"}

\* A message of the worker as the consumer reads it.
WorkerMsg(id, type, pid, error) ==
    [id |-> id, type |-> type, providerId |-> pid, error |-> error]

NoWorkerMsg == WorkerMsg(NoRequest, "", "", "")

\* The consumer after the construction of its service.  `promise` is the
\* state of the promise sendWorkerMessage returned for a request,
\* `pendingMessages` the requests with an entry in the pendingMessages Map
\* (with a listener installed, for the enhanced service), `timers` the
\* requests whose 10 second timer has not fired; `op`, `posted` and
\* `emitted` tell the task that ran last, the messages it posted to the
\* worker and the events it emitted.
ConsumerInit(service) ==
    [ service |-> service,
      providerId |-> "",
      clientState |-> [connected |-> FALSE, connecting |-> FALSE,
                       mode |-> "idle", error |-> ""],
      promise |-> [id \in RequestIds |-> "unsent"],
      type |-> [id \in RequestIds |-> ""],
      pendingMessages |-> {},
      timers |-> {},
      op |-> [op |-> "init", id |-> NoRequest, msg |-> NoWorkerMsg],
      posted |-> <<>>,
      emitted |-> <<>> ]

Emit(s, event) == [s EXCEPT !.emitted = Append(@, event)]

\* The rest of connect(), disconnect() or refresh() once the promise it
\* awaits has settled.
Continue(s, id) ==
    LET ok == s.promise[id] = "resolved"
        t == s.type[id]
    IN IF s.service = "StompClientService"
       THEN IF t = "connect" /\ ~ok
            THEN [s EXCEPT !.clientState.connecting = FALSE,
                           !.clientState.error = "Connection failed"]
            ELSE IF t = "disconnect" /\ ok
            THEN [s EXCEPT !.clientState.connected = FALSE,
                           !.clientState.connecting = FALSE]
            ELSE s
       ELSE IF t = "connect" /\ ~ok
            THEN Emit([s EXCEPT !.clientState.connecting = FALSE,
                                !.clientState.error = "Connection failed"],
                      "error")
            ELSE IF t = "disconnect" /\ ok
            THEN Emit([s EXCEPT !.clientState.connected = FALSE,
                                !.clientState.connecting = FALSE,
                                !.clientState.mode = "idle"],
                      "disconnected")
            ELSE IF t \in {"disconnect", "refresh"} /\ ~ok
            THEN Emit(s, "error")
            ELSE s

\* resolve or reject of the promise of a request: a promise that has
\* settled stays as it is.
Settle(s, id, outcome) ==
    IF s.promise[id] # "pending" THEN s
    ELSE Continue([s EXCEPT !.promise[id] = outcome], id)

\* sendWorkerMessage
SendWorkerMessage(s, type, id) ==
    [s EXCEPT !.promise[id] = "pending",
              !.type[id] = type,
              !.pendingMessages = @ \cup {id},
              !.timers = @ \cup {id},
              !.posted = Append(@, [id |-> id, type |-> type])]

\* connect(), disconnect() or refresh() up to its await.
Request(s, type, id) ==
    IF s.service = "StompClientService"
    THEN IF type = "connect"
         THEN SendWorkerMessage([s EXCEPT !.clientState.connecting = TRUE,
                                          !.clientState.error = ""],
                                type, id)
         ELSE SendWorkerMessage(s, type, id)
    ELSE IF type = "connect"
         THEN SendWorkerMessage([s EXCEPT !.clientState.connecting = TRUE,
                                          !.clientState.error = "",
                                          !.clientState.mode = "idle",
                                          !.providerId = "p1"],
                                type, id)
         ELSE IF type = "refresh"
         THEN SendWorkerMessage([s EXCEPT !.clientState.mode = "idle"], type, id)
         ELSE SendWorkerMessage(s, type, id)

\* A listener that stays installed after it has matched.
ResponseHandler_KeepListener(s, id, msg) ==
    IF msg.id = id
    THEN Settle(s, id, IF msg.error # "" THEN "rejected" ELSE "resolved")
    ELSE s

\* The responseHandler that sendWorkerMessage of the enhanced service
\* installs for request id.
ResponseHandler(s, id, msg) ==
    IF msg.id = id
    THEN Settle([s EXCEPT !.pendingMessages = @ \ {id}], id,
                IF msg.error # "" THEN "rejected" ELSE "resolved")
    ELSE s

\* handleWorkerMessage of StompClientEnhancedService (port.onmessage)
HandleWorkerMessageEnhanced(s, msg) ==
    IF msg.providerId # "" /\ msg.providerId # s.providerId THEN s
    ELSE IF msg.type = "connected"
    THEN Emit([s EXCEPT !.clientState.connected = TRUE,
                        !.clientState.connecting = FALSE,
                        !.clientState.mode = "snapshot",
                        !.clientState.error = ""],
              "connected")
    ELSE IF msg.type = "disconnected"
    THEN Emit([s EXCEPT !.clientState.connected = FALSE,
                        !.clientState.connecting = FALSE,
                        !.clientState.mode = "idle"],
              "disconnected")
    ELSE IF msg.type = "data" THEN Emit(s, "data")
    ELSE IF msg.type = "snapshot-complete"
    THEN Emit([s EXCEPT !.clientState.mode = "realtime"], "snapshot-complete")
    ELSE IF msg.type = "error"
    THEN Emit([s EXCEPT !.clientState.error =
                            IF msg.error # "" THEN msg.error ELSE "Unknown error"],
              "error")
    ELSE s

\* handleWorkerMessage of StompClientService (port.onmessage)
HandleWorkerMessage(s, msg) ==
    IF msg.id \in s.pendingMessages
    THEN Settle([s EXCEPT !.pendingMessages = @ \ {msg.id}], msg.id,
                IF msg.error # "" THEN "rejected" ELSE "resolved")
    ELSE IF msg.type = "connected"
    THEN [s EXCEPT !.clientState.connected = TRUE,
                   !.clientState.connecting = FALSE,
                   !.clientState.error = ""]
    ELSE IF msg.type = "disconnected"
    THEN [s EXCEPT !.clientState.connected = FALSE,
                   !.clientState.connecting = FALSE]
    ELSE IF msg.type = "message" THEN Emit(s, "message")
    ELSE IF msg.type = "error" THEN [s EXCEPT !.clientState.error = msg.error]
    ELSE s

\* The listeners of the port for one message event: port.onmessage, set
\* by initializeWorker, and after it the responseHandler of each request
\* of the enhanced service that is still installed (one at most matches).
OnMessage(s, msg) ==
    IF s.service = "StompClientService" THEN HandleWorkerMessage(s, msg)
    ELSE LET s1 == HandleWorkerMessageEnhanced(s, msg)
         IN IF msg.id \in s1.pendingMessages
            THEN ResponseHandler(s1, msg.id, msg)
            ELSE s1

\* The callback of the setTimeout of sendWorkerMessage for request id.
OnTimeout(s, id) ==
    LET s1 == [s EXCEPT !.timers = @ \ {id}]
    IN IF s.service = "StompClientService"
       THEN IF id \in s1.pendingMessages
            THEN Settle([s1 EXCEPT !.pendingMessages = @ \ {id}], id, "timeout")
            ELSE s1
       ELSE Settle([s1 EXCEPT !.pendingMessages = @ \ {id}], id, "timeout")

\* ------------------------------------------------------ StompSharedWorker

\* The period of the statistics interval and the least time between two
\* recomputations, in milliseconds.
Interval == 1000

SubIds == 1..MaxSubs

Destinations == {"/topic/a", "/topic/b"}

\* No entry under a subscription id of the subscriptions Map.
NoSub == [destination |-> "", connectionId |-> NoPort, client |-> NoClient,
          live |-> FALSE]

\* A Client of StompJs that does not exist (or has become inactive).  A
\* client that exists holds the connection id and the message id of the
\* connect request whose handleConnect constructed it, in the closures of
\* its callbacks; `answered` tells that its callbacks have posted a message
\* with that message id.
NoStompClient == [st |-> "free", connectionId |-> NoPort, messageId |-> NoId,
                  answered |-> FALSE]

\* The StompSharedWorker after its constructor, which runs at time 0.
\* `connections` holds the keys of the connections Map (a connection id is
\* the number of its port), `portSubs` the subscriptions Set of each
\* connection, `subscriptions` the subscriptions Map (`live` tells that the
\* broker still delivers on the subscription), `stompClient` the client
\* the field of that name refers to and `sclients` the clients that
\* exist.  `attached` are the ports whose onmessage handler is installed,
\* `throwing` the ports whose consumer is gone on a platform where
\* postMessage then throws, `subCount` counts the subscription ids made.
\* `ticks` counts the callbacks of the interval that have run, `quiet` tells
\* that no message has arrived since the last of them; `op`, `last` and
\* `out` tell the task that ran last, the port and id of its request (or
\* the client or subscription of its callback, in `arg`) and the messages
\* it posted.
StompWorkerInit ==
    [ connections |-> {},
      attached |-> {},
      throwing |-> {},
      portSubs |-> [port \in Ports |-> {}],
      subscriptions |-> [sid \in SubIds |-> NoSub],
      subCount |-> 0,
      stompClient |-> NoClient,
      stompConnected |-> FALSE,
      sclients |-> [c \in ClientIds |-> NoStompClient],
      stats |-> [messagesReceived |-> 0, messagesPerSecond |-> 0,
                 lastSecondCount |-> 0, lastSecondTime |-> 0],
      ticks |-> 0,
      quiet |-> TRUE,
      op |-> "init",
      last |-> [port |-> NoPort, id |-> NoId, arg |-> 0],
      out |-> <<>> ]

\* A message of the StompSharedWorker.
SharedMsg(id, type) == [id |-> id, type |-> type, messagesPerSecond |-> 0]

\* sendToPort: a connection that is not in the Map is posted nothing; a
\* postMessage that throws is caught and the connection is deleted.
SendToPort(w, connectionId, msg) ==
    IF connectionId \notin w.connections THEN w
    ELSE IF connectionId \in w.throwing
    THEN [w EXCEPT !.connections = @ \ {connectionId},
                   !.portSubs[connectionId] = {}]
    ELSE [w EXCEPT !.out = Append(@, [to |-> connectionId, msg |-> msg])]

\* sendToPort for each connection id of a sequence.
RECURSIVE SendToPorts(_, _, _)
SendToPorts(w, connectionIds, msg) ==
    IF connectionIds = <<>> THEN w
    ELSE SendToPorts(SendToPort(w, Head(connectionIds), msg),
                     Tail(connectionIds), msg)

\* Math.round of a / b, for a >= 0 and b > 0.
Round(a, b) == (2 * a + b) \div (2 * b)

\* updateStats
UpdateStats(w) ==
    [w EXCEPT !.stats.messagesReceived = @ + 1,
              !.stats.lastSecondCount = @ + 1]

\* broadcastToAllPorts
BroadcastToAllPorts(w, msg) == SendToPorts(w, PortSeq(w.connections), msg)

\* broadcastToSubscribers: the forEach visits the subscriptions Map in the
\* order the subscriptions were made.
BroadcastToSubscribers(w, destination, msg) ==
    LET sids == SelectSeq([i \in 1..MaxSubs |-> i],
                          LAMBDA sid : /\ w.subscriptions[sid] # NoSub
                                       /\ w.subscriptions[sid].destination
                                              = destination)
    IN SendToPorts(w, [i \in 1..Len(sids) |->
                          w.subscriptions[sids[i]].connectionId], msg)

\* stompClient.connected
Connected(w, c) ==
    c # NoClient /\ w.sclients[c].st \in {"connected", "deactivating"}

\* handleConnect: the reply when the client is connected, otherwise a new
\* Client, stored in stompClient and activated.
SharedHandleConnect(w, connectionId, messageId) ==
    IF Connected(w, w.stompClient)
    THEN SendToPort(w, connectionId, SharedMsg(messageId, "connected"))
    ELSE LET c == CHOOSE x \in ClientIds :
                      /\ w.sclients[x].st = "free"
                      /\ \A y \in ClientIds : w.sclients[y].st = "free" => x <= y
         IN [w EXCEPT !.stompClient = c,
                      !.sclients[c] = [st |-> "activating",
                                       connectionId |-> connectionId,
                                       messageId |-> messageId,
                                       answered |-> FALSE]]

\* handleSubscribe: stompClient.subscribe throws when the client is not
\* connected.
HandleSubscribe(w, connectionId, messageId, destination) ==
    IF ~w.stompConnected \/ w.stompClient = NoClient
    THEN SendToPort(w, connectionId, SharedMsg(messageId, "error"))
    ELSE IF ~Connected(w, w.stompClient)
    THEN SendToPort(w, connectionId, SharedMsg(messageId, "error"))
    ELSE LET subscriptionId == w.subCount + 1
         IN SendToPort(
                [w EXCEPT !.subCount = subscriptionId,
                          !.subscriptions[subscriptionId] =
                              [destination |-> destination,
                               connectionId |-> connectionId,
                               client |-> w.stompClient, live |-> TRUE],
                          !.portSubs[connectionId] =
                              IF connectionId \in w.connections
                              THEN @ \cup {subscriptionId} ELSE @],
                connectionId, SharedMsg(messageId, "subscribed"))

\* handleUnsubscribe
HandleUnsubscribe(w, connectionId, messageId, subscriptionId) ==
    IF w.subscriptions[subscriptionId] = NoSub
    THEN SendToPort(w, connectionId, SharedMsg(messageId, "error"))
    ELSE SendToPort([w EXCEPT !.subscriptions[subscriptionId] = NoSub,
                              !.portSubs[connectionId] = @ \ {subscriptionId}],
                    connectionId, SharedMsg(messageId, "unsubscribed"))

\* handleSend: stompClient.publish throws when the client is not connected.
HandleSend(w, connectionId, messageId) ==
    IF ~w.stompConnected \/ w.stompClient = NoClient
    THEN SendToPort(w, connectionId, SharedMsg(messageId, "error"))
    ELSE IF ~Connected(w, w.stompClient)
    THEN SendToPort(w, connectionId, SharedMsg(messageId, "error"))
    ELSE SendToPort(w, connectionId, SharedMsg(messageId, "sent"))

\* handleDisconnect.  The connection is marked inactive first, so the
\* handleUnsubscribe calls of its forEach post nothing; the last statement
\* looks the connection up after it was deleted.
SharedHandleDisconnect(w, connectionId, messageId) ==
    LET w1 == IF connectionId \in w.connections
              THEN [w EXCEPT !.subscriptions =
                                 [sid \in SubIds |->
                                     IF sid \in w.portSubs[connectionId]
                                     THEN NoSub ELSE @[sid]],
                             !.portSubs[connectionId] = {},
                             !.connections = @ \ {connectionId}]
              ELSE w
        c == w1.stompClient
        w2 == IF w1.connections = {} /\ c # NoClient
              THEN [w1 EXCEPT !.sclients[c] =
                                  IF @.st = "connected"
                                  THEN [@ EXCEPT !.st = "deactivating"]
                                  ELSE IF @.st = "activating" THEN NoStompClient
                                  ELSE @]
              ELSE w1
    IN SendToPort(w2, connectionId, SharedMsg(messageId, "disconnected"))

\* The callback of the setInterval of startStatsCalculation, run at `now`.
StatsCallback(w, now) ==
    LET timeDiff == now - w.stats.lastSecondTime
        mps == Round(w.stats.lastSecondCount * 1000, timeDiff)
    IN IF timeDiff >= Interval
       THEN BroadcastToAllPorts(
                [w EXCEPT !.stats.messagesPerSecond = mps,
                          !.stats.lastSecondCount = 0,
                          !.stats.lastSecondTime = now],
                [SharedMsg("stats-update", "status")
                    EXCEPT !.messagesPerSecond = mps])
       ELSE w

\* ------------------------------------------------------------ destinations

\* The configuration of a stream.  dataType "" is a configuration that
\* names none; messageRate 0 and batchSize 0 are a missing field or the
\* number 0, which the code does not tell apart.
StreamConfigs ==
    [dataType : {"", "positions", "trades"}, clientId : {"c1", "c2"},
     messageRate : {0, 500, 1000}, batchSize : {0, 50}]

\* The builders of the destinations: connect() of ProviderConnection, and
\* startPositionsStream of StompClientService.
Builders == {"ProviderConnection", "StompClientService"}

\* The values generateClientId may return.
GeneratedClientIds == {"stomp-1-ab12", "stomp-2-cd34"}

StreamInit(builder, config) ==
    [ builder |-> builder, config |-> config, clientId |-> "",
      listenerTopic |-> "", triggerDestination |-> "" ]

\* buildListenerTopic
BuildListenerTopic(config, clientId) ==
    LET dataType == IF config.dataType # "" THEN config.dataType ELSE "positions"
    IN "/snapshot/" \o dataType \o "/" \o clientId

\* buildTriggerDestination
BuildTriggerDestination(config, clientId) ==
    LET dataType == IF config.dataType # "" THEN config.dataType ELSE "positions"
        rate == IF config.messageRate # 0 THEN config.messageRate ELSE 1000
        destination == "/snapshot/" \o dataType \o "/" \o clientId
                           \o "/" \o ToString(rate)
    IN IF config.batchSize # 0
       THEN destination \o "/" \o ToString(config.batchSize)
       ELSE destination

\* connect() of ProviderConnection, the lines that build the destinations.
ConnectDestinations(st, clientId) ==
    [st EXCEPT !.clientId = clientId,
               !.listenerTopic = BuildListenerTopic(st.config, clientId),
               !.triggerDestination = BuildTriggerDestination(st.config, clientId)]

\* startPositionsStream: the destination it subscribes to and the
\* destination of its trigger message.
StartPositionsStream(st) ==
    LET destination == "/snapshot/positions/" \o st.config.clientId
        rate == IF st.config.messageRate # 0 THEN st.config.messageRate ELSE 1000
    IN [st EXCEPT !.clientId = st.config.clientId,
                  !.listenerTopic = destination,
                  !.triggerDestination = destination \o "/" \o ToString(rate)]

\* ------------------------------------ the StompSharedWorker over a WebSocket

\* The hand-written StompSharedWorker of the stomp-client library speaks
\* STOMP over a WebSocket of its own.  Modelled: its connections, its
\* sockets and its reconnect timer.  Left out: the messages it posts, its
\* subscriptions, its statistics and its heartbeat.

\* The WebSockets the worker constructs, in the order of construction.
Sockets == 1..MaxSockets

\* The values of reconnectDelay a connect request carries (0: none).
ReconnectDelays == {0, 5000}

SocketWorkerInit ==
    [connections    |-> {},      \* the keys of the connections Map
     attached       |-> {},      \* the ports whose onmessage is installed
     reconnectDelay |-> 0,       \* this.config?.reconnectDelay
     websocket      |-> 0,       \* this.websocket (0: null)
     readyState     |-> [s \in Sockets |-> "none"],
     reconnectTimer |-> "null",  \* the timer this.reconnectTimer names
     timers         |-> 0,       \* the reconnect timers that are pending
     stompConnected |-> FALSE,
     released       |-> FALSE,   \* handleDisconnect closed the socket and
                                 \* no port has sent connect since
     op             |-> "init",
     socket         |-> 0,       \* the socket of the event handled last
     calls          |-> <<>>]    \* the calls of the task that ran last

\* handleConnect, as a port and as the reconnect timer call it.
SocketHandleConnect(w, reconnectDelay) ==
    LET w1 == [w EXCEPT !.reconnectDelay = reconnectDelay]
    IN IF w1.websocket # 0 /\ w1.readyState[w1.websocket] = "OPEN"
       THEN w1
       ELSE LET s == CHOOSE s \in Sockets :
                         /\ w1.readyState[s] = "none"
                         /\ \A t \in 1..(s - 1) : w1.readyState[t] # "none"
            IN [w1 EXCEPT !.websocket = s,
                          !.readyState[s] = "CONNECTING",
                          !.calls = Append(@, "new WebSocket")]

\* scheduleReconnect: the timer this.reconnectTimer names is cleared (a no-op
\* when it has fired) and a new one is set.
ScheduleReconnect(w) ==
    [w EXCEPT !.timers = (IF w.reconnectTimer = "pending" THEN @ - 1 ELSE @) + 1,
              !.reconnectTimer = "pending",
              !.calls = Append(@, "setTimeout")]

\* The components as they are while the enhanced worker alone is studied.
ConsumerAtRest == consumer = ConsumerInit("StompClientEnhancedService")

StompWorkerAtRest == stompWorker = StompWorkerInit

SocketWorkerAtRest == socketWorker = SocketWorkerInit

StreamAtRest ==
    stream = StreamInit("ProviderConnection",
                        [dataType |-> "", clientId |-> "c1",
                         messageRate |-> 0, batchSize |-> 0])

ComponentsInit ==
    ConsumerAtRest /\ StompWorkerAtRest /\ SocketWorkerAtRest /\ StreamAtRest

\* ---------------------------------------------------------- specification

Init ==
    /\ stompLoaded \in BOOLEAN
    /\ ports = {}
    /\ providers = [pid \in ProviderIds |-> NoObj]
    /\ obj = [o \in ObjIds |-> BlankObj]
    /\ clients = [c \in ClientIds |-> FreeClientRec]
    /\ pendingRefresh = {}
    /\ disconnectCalled = {}
    /\ cycleRows = [o \in ObjIds |-> 0]
    /\ keepRecs = FALSE
    /\ cycleRecs = [o \in ObjIds |-> <<>>]
    /\ cycleComplete = {}
    /\ channel = AllOpen
    /\ lastOp = Op("init", NoPort, "", NoId, NoObj, NoClient, NoBody)
    /\ out = <<>>
    /\ calls = <<>>
    /\ ComponentsInit

\* The tasks of the worker, for a feed that sends the bodies of `feed`, at
\* most `slots` clients alive at once, the given caps of the row counters
\* and requests that draw their configuration and id from the given sets.
Step(feed, slots, maxRows, maxUpdates, configs, ids) ==
    \/ \E port \in Ports : PortConnect(port)
    \/ \E port \in Ports, pid \in ProviderIds, config \in configs, id \in ids,
          definition \in Definitions :
           ConnectRequest(port, pid, config, id, definition, slots)
    \/ \E port \in Ports, pid \in ProviderIds, id \in ids :
           DisconnectRequest(port, pid, id)
    \/ \E port \in Ports, pid \in ProviderIds, id \in ids :
           RefreshRequest(port, pid, id)
    \/ \E e \in pendingRefresh : RefreshResume(e, slots)
    \/ \E port \in Ports, pid \in ProviderIds, id \in ids :
           GetSnapshotRequest(port, pid, id)
    \/ \E port \in Ports, pid \in ProviderIds, id \in ids :
           GetStatisticsRequest(port, pid, id)
    \/ \E port \in Ports, id \in ids : UnknownRequest(port, id)
    \/ \E c \in ClientIds : TransportOnConnect(c)
    \/ \E c \in ClientIds : TransportOnDisconnect(c)
    \/ \E c \in ClientIds : TransportClose(c)
    \/ \E c \in ClientIds, reason \in {"STOMP connection error",
                                       "WebSocket connection error"} :
           TransportError(c, reason)
    \/ \E c \in ClientIds, body \in feed :
           TransportFrame(c, body, maxRows, maxUpdates)

\* Spec: the requests of two ports and the whole feed, for behaviours in
\* which a new client is activated only once the previous one is gone.
Next == Step(Feed, 1, MaxRows, MaxUpdates, Configs, Ids)

Spec == Init /\ [][Next]_vars

\* SpecRace: every interleaving of the requests with the callbacks of up to
\* MaxClients clients alive at once, for a feed of one record and the
\* sentinel, one configuration and one request id.
NextRace ==
    Step(RaceFeed, MaxClients, MaxRaceRows, MaxRaceRows, RaceConfigs, Ids)

SpecRace == Init /\ [][NextRace]_vars

\* The bodies the feed sends under SpecCache.
CacheFeed ==
    { Body(TRUE, FALSE, <<Rec("s1", 10)>>, {}),                \* {"id":"1","v":10}
      Body(TRUE, FALSE, <<Rec("s2", 20)>>, {}),                \* {"id":"2","v":20}
      Body(TRUE, FALSE, <<Rec("n1", 99)>>, {}),                \* {"id":1,"v":99}
      Body(TRUE, FALSE, <<Rec("u", 10)>>, {}),                 \* {"v":10}
      Body(TRUE, TRUE, <<Rec("s1", 10), Rec("s2", 20)>>, {}),  \* [{"id":"1","v":10},{"id":"2","v":20}]
      Body(TRUE, TRUE, <<Rec("s2", 20), NullRec>>, {}),        \* [{"id":"2","v":20},null]
      Body(TRUE, TRUE, <<>>, {}),                              \* []
      Body(FALSE, FALSE, <<>>, {"eos"}) }                      \* EOS

InitCache ==
    /\ stompLoaded \in BOOLEAN
    /\ ports = {}
    /\ providers = [pid \in ProviderIds |-> NoObj]
    /\ obj = [o \in ObjIds |-> BlankObj]
    /\ clients = [c \in ClientIds |-> FreeClientRec]
    /\ pendingRefresh = {}
    /\ disconnectCalled = {}
    /\ cycleRows = [o \in ObjIds |-> 0]
    /\ keepRecs = TRUE
    /\ cycleRecs = [o \in ObjIds |-> <<>>]
    /\ cycleComplete = {}
    /\ channel = AllOpen
    /\ lastOp = Op("init", NoPort, "", NoId, NoObj, NoClient, NoBody)
    /\ out = <<>>
    /\ calls = <<>>
    /\ ComponentsInit

\* SpecCache: the worker with the history of the records applied to each
\* cache, for one configuration with key column "id".
NextCache ==
    Step(CacheFeed, 1, MaxRows, MaxUpdates, RaceConfigs, Ids)

SpecCache == InitCache /\ [][NextCache]_vars

\* SpecPorts: the worker with consumers whose channel fails, for a feed of
\* one record and the sentinel, one configuration and one request id.
NextPorts ==
    \/ Step(RaceFeed, 1, MaxRaceRows, MaxRaceRows, RaceConfigs, Ids)
    \/ \E port \in Ports, throws \in BOOLEAN : PortClose(port, throws)
    \/ \E port \in Ports : PortMessageError(port)

SpecPorts == Init /\ [][NextPorts]_vars


\* ------------------------------------------------- the consumer's tasks

\* The worker as it is while a consumer alone is studied.
WorkerAtRest ==
    /\ stompLoaded = TRUE
    /\ ports = {}
    /\ providers = [pid \in ProviderIds |-> NoObj]
    /\ obj = [o \in ObjIds |-> BlankObj]
    /\ clients = [c \in ClientIds |-> FreeClientRec]
    /\ pendingRefresh = {}
    /\ disconnectCalled = {}
    /\ cycleRows = [o \in ObjIds |-> 0]
    /\ keepRecs = FALSE
    /\ cycleRecs = [o \in ObjIds |-> <<>>]
    /\ cycleComplete = {}
    /\ channel = AllOpen
    /\ lastOp = Op("init", NoPort, "", NoId, NoObj, NoClient, NoBody)
    /\ out = <<>>
    /\ calls = <<>>

workerVars == <<stompLoaded, ports, providers, obj, clients,
                pendingRefresh, disconnectCalled, cycleRows, keepRecs,
                cycleRecs, cycleComplete, channel, lastOp, out, calls>>

\* The consumer at the start of a task.
C0 == [consumer EXCEPT !.posted = <<>>, !.emitted = <<>>]

\* The page calls connect(), disconnect() or refresh() of the service.
Send(type, id) ==
    /\ consumer.promise[id] = "unsent"
    /\ \A j \in RequestIds : j < id => consumer.promise[j] # "unsent"
    /\ type \in RequestTypes(consumer.service)
    /\ (consumer.service = "StompClientEnhancedService" /\ type # "connect")
           => consumer.providerId # ""
    /\ consumer' = [Request(C0, type, id) EXCEPT
                       !.op = [op |-> "send", id |-> id, msg |-> NoWorkerMsg]]
    /\ UNCHANGED <<workerVars, stompWorker, socketWorker, stream>>

\* The messages the worker may post to the consumer: for a request that
\* was sent, its success response or an error with its id; and the
\* unsolicited events, of the consumer's provider or of another one.
WorkerMessages ==
    { WorkerMsg(id, IF consumer.service = "StompClientEnhancedService"
                    THEN "response"
                    ELSE IF consumer.type[id] = "connect" THEN "connected"
                    ELSE "disconnected",
                "", "") :
          id \in {j \in RequestIds : consumer.promise[j] # "unsent"} }
    \cup { WorkerMsg(id, "error", "",
                     IF consumer.service = "StompClientEnhancedService"
                     THEN "Provider not connected" ELSE "WebSocket error") :
               id \in {j \in RequestIds : consumer.promise[j] # "unsent"} }
    \cup (IF consumer.service = "StompClientEnhancedService"
          THEN { WorkerMsg(NoRequest, t, "p1", "") :
                     t \in {"connected", "disconnected", "data", "snapshot-complete"} }
               \cup { WorkerMsg(NoRequest, "error", "p1", "STOMP connection error"),
                      WorkerMsg(NoRequest, "data", "p2", "") }
          ELSE { WorkerMsg(NoRequest, t, "", "") :
                     t \in {"connected", "disconnected", "message"} }
               \cup { WorkerMsg(NoRequest, "error", "", "STOMP Error") })

\* A message of the worker arrives at the port.
Deliver(msg) ==
    /\ msg \in WorkerMessages
    /\ consumer' = [OnMessage(C0, msg) EXCEPT
                       !.op = [op |-> "deliver", id |-> msg.id, msg |-> msg]]
    /\ UNCHANGED <<workerVars, stompWorker, socketWorker, stream>>

\* The 10 second timer of a request fires; the timers fire in the order
\* they were set.
Timeout(id) ==
    /\ id \in consumer.timers
    /\ \A j \in consumer.timers : id <= j
    /\ consumer' = [OnTimeout(C0, id) EXCEPT
                       !.op = [op |-> "timeout", id |-> id, msg |-> NoWorkerMsg]]
    /\ UNCHANGED <<workerVars, stompWorker, socketWorker, stream>>

InitConsumer ==
    /\ WorkerAtRest
    /\ StompWorkerAtRest
    /\ SocketWorkerAtRest
    /\ StreamAtRest
    /\ \E service \in Services : consumer = ConsumerInit(service)

NextConsumer ==
    \/ \E id \in RequestIds, type \in {"connect", "disconnect", "refresh"} :
           Send(type, id)
    \/ \E msg \in WorkerMessages : Deliver(msg)
    \/ \E id \in RequestIds : Timeout(id)

\* SpecConsumer: one consumer of either service, its requests, the messages
\* of the worker in any order and at any time, and the timers.  A timer
\* that was set fires.
SpecConsumer ==
    /\ InitConsumer
    /\ [][NextConsumer]_vars
    /\ WF_vars(\E id \in RequestIds : Timeout(id))


\* --------------------------------------------- the StompSharedWorker's tasks

\* onConnect: generateId numbers the connections.
SharedOnConnect(connectionId) ==
    /\ connectionId \notin stompWorker.attached
    /\ connectionId = Cardinality(stompWorker.attached) + 1
    /\ stompWorker' =
           [SendToPort([stompWorker EXCEPT
                            !.connections = @ \cup {connectionId},
                            !.attached = @ \cup {connectionId},
                            !.out = <<>>],
                       connectionId, SharedMsg("connection", "connected"))
               EXCEPT !.op = "onConnect",
                      !.last = [port |-> connectionId, id |-> NoId, arg |-> 0]]
    /\ UNCHANGED <<workerVars, consumer, socketWorker, stream>>

\* handleStompMessage: a MESSAGE frame arrives.
StompMessage ==
    /\ stompWorker.stats.lastSecondCount < MaxPerPeriod
    /\ stompWorker' = [UpdateStats(stompWorker) EXCEPT
                          !.quiet = FALSE, !.op = "message", !.out = <<>>]
    /\ UNCHANGED <<workerVars, consumer, socketWorker, stream>>

\* A callback of the statistics interval runs.  The timer is due every
\* Interval milliseconds after the constructor; the callback runs when it
\* is due or `late` milliseconds after.
IntervalTick(late) ==
    /\ stompWorker.ticks < MaxTicks
    /\ stompWorker' =
           [StatsCallback([stompWorker EXCEPT !.out = <<>>],
                          (stompWorker.ticks + 1) * Interval + late)
               EXCEPT !.ticks = @ + 1, !.quiet = TRUE, !.op = "tick"]
    /\ UNCHANGED <<workerVars, consumer, socketWorker, stream>>

InitStats ==
    /\ WorkerAtRest
    /\ ComponentsInit

NextStats ==
    \/ \E connectionId \in Ports : SharedOnConnect(connectionId)
    \/ StompMessage
    \/ \E late \in {0, MaxLate} : IntervalTick(late)

\* SpecStats: the statistics of the StompSharedWorker, for up to two
\* connections, the messages of the broker and the callbacks of the
\* interval, each on time or late.
SpecStats == InitStats /\ [][NextStats]_vars

\* The requests of a port and what each carries: a destination, a
\* subscription id, or nothing the model keeps.
SharedRequestTypes ==
    {"connect", "disconnect", "subscribe", "unsubscribe", "send", "config",
     "unknown"}

Payloads(type) ==
    IF type = "subscribe" THEN Destinations
    ELSE IF type = "unsubscribe" THEN SubIds
    ELSE {0}

\* The end of a task of the StompSharedWorker.
SharedCommit(w, op, port, id, arg) ==
    /\ stompWorker' = [w EXCEPT !.op = op,
                                !.last = [port |-> port, id |-> id, arg |-> arg]]
    /\ UNCHANGED <<workerVars, consumer, socketWorker, stream>>

\* The StompSharedWorker at the start of a task.
S0 == [stompWorker EXCEPT !.out = <<>>]

\* handlePortMessage: port.onmessage of a port that has connected.  None
\* of the handlers throws out of its own try, so the catch posts nothing.
\* `slots` is the number of clients that may exist at once.
PortMessage(port, type, id, payload, slots) ==
    /\ port \in stompWorker.attached \ stompWorker.throwing
    /\ (type = "connect" /\ ~Connected(S0, S0.stompClient))
           => \E c \in 1..slots : stompWorker.sclients[c].st = "free"
    /\ (type = "subscribe" /\ Connected(S0, S0.stompClient) /\ S0.stompConnected)
           => stompWorker.subCount < MaxSubs
    /\ SharedCommit(
           CASE type = "connect" -> SharedHandleConnect(S0, port, id)
             [] type = "disconnect" -> SharedHandleDisconnect(S0, port, id)
             [] type = "subscribe" -> HandleSubscribe(S0, port, id, payload)
             [] type = "unsubscribe" -> HandleUnsubscribe(S0, port, id, payload)
             [] type = "send" -> HandleSend(S0, port, id)
             [] type = "config" -> SendToPort(S0, port, SharedMsg(id, "configured"))
             [] OTHER -> SendToPort(S0, port, SharedMsg(id, "error")),
           type, port, id, IF type = "unsubscribe" THEN payload ELSE 0)

\* handlePortError: port.onmessageerror
HandlePortError(port) ==
    /\ port \in stompWorker.attached \ stompWorker.throwing
    /\ SharedCommit([S0 EXCEPT !.connections = @ \ {port},
                               !.portSubs[port] = {}],
                    "portError", port, NoId, 0)

\* The consumer of a port goes away, on a platform where a postMessage to
\* its port throws from then on.
PortGone(port) ==
    /\ port \in stompWorker.attached \ stompWorker.throwing
    /\ SharedCommit([S0 EXCEPT !.throwing = @ \cup {port}],
                    "portGone", port, NoId, 0)

\* The answer of a callback of client c to the connect request that
\* constructed it.
Answer(w, c, type) ==
    LET w1 == SendToPort(w, w.sclients[c].connectionId,
                         SharedMsg(w.sclients[c].messageId, type))
    IN IF Len(w1.out) > Len(w.out)
       THEN [w1 EXCEPT !.sclients[c].answered = TRUE]
       ELSE w1

\* onStompConnect: the library calls onConnect of client c, after
\* activate() and again each time it has reconnected.
OnStompConnect(c) ==
    /\ stompWorker.sclients[c].st = "activating"
    /\ SharedCommit(
           Answer(BroadcastToAllPorts(
                      [S0 EXCEPT !.stompConnected = TRUE,
                                 !.sclients[c].st = "connected"],
                      SharedMsg("stomp-connected", "connected")),
                  c, "connected"),
           "onStompConnect", NoPort, NoId, c)

\* onStompDisconnect: the receipt for the DISCONNECT of a deactivated
\* client has arrived; the library closes the socket next.
OnStompDisconnect(c) ==
    /\ stompWorker.sclients[c].st = "deactivating"
    /\ SharedCommit(
           BroadcastToAllPorts([S0 EXCEPT !.stompConnected = FALSE,
                                          !.sclients[c].st = "closing"],
                               SharedMsg("stomp-disconnected", "disconnected")),
           "onStompDisconnect", NoPort, NoId, c)

\* onStompError: an ERROR frame of the broker.
OnStompError(c) ==
    /\ stompWorker.sclients[c].st \in {"activating", "connected"}
    /\ SharedCommit(
           BroadcastToAllPorts(Answer(S0, c, "error"),
                               SharedMsg("stomp-error", "error")),
           "onStompError", NoPort, NoId, c)

\* onWebSocketClose: the socket of client c has closed.  A client that is
\* active connects again after reconnectDelay; the broker's side of its
\* subscriptions is gone.
OnWebSocketClose(c) ==
    /\ stompWorker.sclients[c].st \in {"activating", "connected",
                                        "deactivating", "closing"}
    /\ SharedCommit(
           BroadcastToAllPorts(
               [S0 EXCEPT !.stompConnected = FALSE,
                          !.sclients[c] =
                              IF @.st \in {"activating", "connected"}
                              THEN [@ EXCEPT !.st = "activating"]
                              ELSE NoStompClient,
                          !.subscriptions =
                              [sid \in SubIds |->
                                  IF @[sid].client = c
                                  THEN [@[sid] EXCEPT !.live = FALSE]
                                  ELSE @[sid]]],
               SharedMsg("stomp-disconnected", "disconnected")),
           "onWebSocketClose", NoPort, NoId, c)

\* onWebSocketError
OnWebSocketError(c) ==
    /\ stompWorker.sclients[c].st \in {"activating", "connected"}
    /\ SharedCommit(Answer(S0, c, "error"), "onWebSocketError", NoPort, NoId, c)

\* handleStompMessage: the callback of a subscription, for a MESSAGE frame
\* the broker delivers on it.
SubscriptionMessage(subscriptionId) ==
    /\ stompWorker.subscriptions[subscriptionId].live
    /\ Connected(S0, stompWorker.subscriptions[subscriptionId].client)
    /\ stompWorker.stats.lastSecondCount < MaxPerPeriod
    /\ SharedCommit(
           BroadcastToSubscribers(
               [UpdateStats(S0) EXCEPT !.quiet = FALSE],
               stompWorker.subscriptions[subscriptionId].destination,
               SharedMsg("msg", "message")),
           "message", NoPort, NoId, subscriptionId)

NextShared ==
    \/ \E connectionId \in Ports : SharedOnConnect(connectionId)
    \/ \E port \in Ports,
          type \in {"connect", "disconnect", "send", "config", "unknown"} :
           PortMessage(port, type, "m1", 0, MaxClients)
    \/ \E port \in Ports : HandlePortError(port)
    \/ \E port \in Ports : PortGone(port)
    \/ \E c \in ClientIds : OnStompConnect(c)
    \/ \E c \in ClientIds : OnStompDisconnect(c)
    \/ \E c \in ClientIds : OnStompError(c)
    \/ \E c \in ClientIds : OnWebSocketClose(c)
    \/ \E c \in ClientIds : OnWebSocketError(c)

\* SpecShared: the connection of the StompSharedWorker, for up to two
\* ports, their requests other than subscribe and unsubscribe, ports that
\* fail and the callbacks of up to MaxClients StompJs clients.
SpecShared == InitStats /\ [][NextShared]_vars

NextSubs ==
    \/ \E connectionId \in Ports : SharedOnConnect(connectionId)
    \/ \E port \in Ports, type \in SharedRequestTypes :
           \E payload \in Payloads(type) :
               PortMessage(port, type, "m1", payload, 1)
    \/ \E c \in ClientIds : OnStompConnect(c)
    \/ \E c \in ClientIds : OnStompDisconnect(c)
    \/ \E c \in ClientIds : OnWebSocketClose(c)
    \/ \E subscriptionId \in SubIds : SubscriptionMessage(subscriptionId)

\* SpecSubs: the subscriptions of the StompSharedWorker, for up to two
\* ports, all their requests, one StompJs client at a time and up to
\* MaxSubs subscriptions.
SpecSubs == InitStats /\ [][NextSubs]_vars

\* ----------------------------------- the tasks of the worker over a WebSocket

\* self.onconnect: a page attaches its port.
SocketOnConnect(port) ==
    /\ port \notin socketWorker.attached
    /\ socketWorker' = [socketWorker EXCEPT !.connections = @ \cup {port},
                                            !.attached = @ \cup {port},
                                            !.op = "onConnect",
                                            !.calls = <<>>]
    /\ UNCHANGED <<workerVars, consumer, stompWorker, stream>>

\* A port sends connect.
SocketConnect(port, reconnectDelay) ==
    /\ port \in socketWorker.attached
    /\ \E s \in Sockets : socketWorker.readyState[s] = "none"
    /\ socketWorker' =
           [SocketHandleConnect([socketWorker EXCEPT !.calls = <<>>],
                                reconnectDelay)
               EXCEPT !.released = FALSE, !.op = "connect"]
    /\ UNCHANGED <<workerVars, consumer, stompWorker, stream>>

\* A port sends disconnect.  send() throws on a socket that is CONNECTING,
\* and close() is not reached then; on a socket that is closing or closed
\* send() discards the frame and close() does nothing.
SocketDisconnect(port) ==
    /\ port \in socketWorker.attached
    /\ LET w == [socketWorker EXCEPT !.connections = @ \ {port},
                                     !.calls = <<>>, !.op = "disconnect"]
           s == w.websocket
       IN socketWorker' =
              IF w.connections = {} /\ s # 0
              THEN IF w.readyState[s] = "CONNECTING"
                   THEN [w EXCEPT !.calls = <<"send">>]
                   ELSE [w EXCEPT !.calls = <<"send", "close">>,
                                  !.released = TRUE,
                                  !.readyState[s] =
                                      IF @ = "OPEN" THEN "CLOSING" ELSE @]
              ELSE w
    /\ UNCHANGED <<workerVars, consumer, stompWorker, stream>>

\* onopen of socket s: the CONNECT frame is sent on this.websocket.
OnSocketOpen(s) ==
    /\ socketWorker.readyState[s] = "CONNECTING"
    /\ socketWorker' = [socketWorker EXCEPT !.readyState[s] = "OPEN",
                                            !.op = "open", !.socket = s,
                                            !.calls = <<"send">>]
    /\ UNCHANGED <<workerVars, consumer, stompWorker, stream>>

\* onmessage of socket s with a CONNECTED frame.
OnSocketMessage(s) ==
    /\ socketWorker.readyState[s] = "OPEN"
    /\ ~socketWorker.stompConnected
    /\ socketWorker' = [socketWorker EXCEPT !.stompConnected = TRUE,
                                            !.op = "message", !.socket = s,
                                            !.calls = <<>>]
    /\ UNCHANGED <<workerVars, consumer, stompWorker, stream>>

\* onclose of socket s.  The code is 1006 when the connection was lost, 1000
\* when the peer closed it normally, and after the worker's close(), which
\* passes no code, 1005 or the code of the peer's Close frame.
OnSocketClose(s, code) ==
    /\ socketWorker.readyState[s] \in {"CONNECTING", "OPEN", "CLOSING"}
    /\ code = 1005 => socketWorker.readyState[s] = "CLOSING"
    /\ LET w == [socketWorker EXCEPT !.readyState[s] = "CLOSED",
                                     !.stompConnected = FALSE,
                                     !.op = "close", !.socket = s,
                                     !.calls = <<>>]
       IN socketWorker' = IF code # 1000 /\ w.reconnectDelay # 0
                          THEN ScheduleReconnect(w)
                          ELSE w
    /\ UNCHANGED <<workerVars, consumer, stompWorker, stream>>

\* The reconnect timer fires: handleConnect('auto-reconnect', 'reconnect',
\* this.config).
ReconnectTimer ==
    /\ socketWorker.timers > 0
    /\ \E s \in Sockets : socketWorker.readyState[s] = "none"
    /\ socketWorker' =
           [SocketHandleConnect([socketWorker EXCEPT !.calls = <<>>,
                                                     !.timers = @ - 1,
                                                     !.reconnectTimer = "fired"],
                                socketWorker.reconnectDelay)
               EXCEPT !.op = "reconnect"]
    /\ UNCHANGED <<workerVars, consumer, stompWorker, stream>>

NextSocket ==
    \/ \E port \in Ports : SocketOnConnect(port)
    \/ \E port \in Ports, reconnectDelay \in ReconnectDelays :
           SocketConnect(port, reconnectDelay)
    \/ \E port \in Ports : SocketDisconnect(port)
    \/ \E s \in Sockets : OnSocketOpen(s)
    \/ \E s \in Sockets : OnSocketMessage(s)
    \/ \E s \in Sockets, code \in {1000, 1005, 1006} : OnSocketClose(s, code)
    \/ ReconnectTimer

\* SpecSocket: the StompSharedWorker over a WebSocket, for up to two ports,
\* their connect and disconnect requests, up to MaxSockets sockets, their
\* events and the reconnect timer.
SpecSocket == InitStats /\ [][NextSocket]_vars

\* ------------------------------------------------------- the destinations

\* connect() of a ProviderConnection builds the destinations of an attempt.
ConnectAttempt(clientId) ==
    /\ stream.builder = "ProviderConnection"
    /\ stream' = ConnectDestinations(stream, clientId)
    /\ UNCHANGED <<workerVars, consumer, stompWorker, socketWorker>>

\* A page calls startPositionsStream of StompClientService.
PositionsStream ==
    /\ stream.builder = "StompClientService"
    /\ stream' = StartPositionsStream(stream)
    /\ UNCHANGED <<workerVars, consumer, stompWorker, socketWorker>>

InitStream ==
    /\ WorkerAtRest
    /\ ConsumerAtRest
    /\ StompWorkerAtRest
    /\ SocketWorkerAtRest
    /\ \E builder \in Builders, config \in StreamConfigs :
           stream = StreamInit(builder, config)

NextStream ==
    \/ \E clientId \in GeneratedClientIds : ConnectAttempt(clientId)
    \/ PositionsStream

\* SpecStream: the destinations each builder makes of each configuration.
SpecStream == InitStream /\ [][NextStream]_vars


\* ------------------------------------------------------- reading the state

RequestOps ==
    {"connect", "disconnect", "refresh", "refresh-resume", "get-snapshot",
     "get-statistics", "unknown"}

\* The messages of `o` that carry the correlation id `id`.
WithId(o, id) == SelectSeq(o, LAMBDA m : m.msg.id = id)

\* The unsolicited events among the messages of `o`.
Events(o) == SelectSeq(o, LAMBDA m : m.msg.id = NoId)

\* The messages of `o` posted to `port`.
PostedTo(o, port) == SelectSeq(o, LAMBDA m : m.to = port)

Range(q) == {q[i] : i \in 1..Len(q)}

\* The clients of object o that are active: connected or connecting.
ActiveClients(cl, o) ==
    {c \in ClientIds : cl[c].owner = o /\ cl[c].st \in {"activating", "connected"}}

\* The clients of object o that exist.
ClientsOf(cl, o) == {c \in ClientIds : cl[c].owner = o}

Busy(ob) == ob.isConnecting \/ ob.isConnected

\* ----------------------------------------------------------------- claims

\* C1: with two consumers attached to a provider, a disconnect request of
\* one of them only detaches that consumer: the session stays in the
\* registry with the other consumer attached and no transport call is made.
C1_ReleaseDetachesOnlyTheCaller ==
    [][ (/\ lastOp'.op = "disconnect"
         /\ providers[lastOp'.pid] # NoObj
         /\ lastOp'.port \in obj[providers[lastOp'.pid]].subscribers
         /\ Cardinality(obj[providers[lastOp'.pid]].subscribers) = 2)
        => (/\ providers'[lastOp'.pid] = providers[lastOp'.pid]
            /\ obj'[providers[lastOp'.pid]].subscribers =
                   obj[providers[lastOp'.pid]].subscribers \ {lastOp'.port}
            /\ clients' = clients
            /\ calls' = <<>>) ]_vars

\* C2: a connect request for an unseen provider id creates one
\* ProviderConnection with the port as its only subscriber and activates
\* one client for it; a connect request for a registered provider id creates
\* no ProviderConnection and adds the port to the subscribers; and as long
\* as disconnect() was never called on the session, after any number of
\* connect requests and transport callbacks the session still has exactly
\* one client, the one it holds as its connection.
C2_TwoConnectsShareOneSession ==
    [][ lastOp'.op = "connect"
        => LET pid == lastOp'.pid
               port == lastOp'.port
               o == providers'[pid]
           IN /\ o # NoObj
              /\ port \in obj'[o].subscribers
              /\ IF providers[pid] = NoObj
                 THEN /\ obj'[o].subscribers = {port}
                      /\ stompLoaded =>
                            calls' = <<[client |-> obj'[o].connection,
                                        call |-> "activate"]>>
                 ELSE /\ o = providers[pid]
                      /\ obj'[o].subscribers = obj[o].subscribers \cup {port}
              /\ (stompLoaded /\ o \notin disconnectCalled')
                    => /\ ClientsOf(clients', o) = {obj'[o].connection}
                       /\ providers[pid] # NoObj
                             => (calls' = <<>> /\ clients' = clients) ]_vars

\* C2 witness: the second port has just connected to a provider whose
\* session the first port created, and the session has one client.
C2_Witness ==
    /\ lastOp.op = "connect"
    /\ lastOp.port = 2
    /\ providers[lastOp.pid] # NoObj
    /\ obj[providers[lastOp.pid]].subscribers = {1, 2}
    /\ providers[lastOp.pid] \notin disconnectCalled
    /\ Cardinality(ClientsOf(clients, providers[lastOp.pid])) = 1

\* C3: a provider session never has two transport clients that are
\* connected or connecting at the same time.
C3_AtMostOneActiveClient ==
    \A o \in ObjIds : Cardinality(ActiveClients(clients, o)) <= 1

\* C4: every request with correlation id X is answered by exactly one
\* message carrying X: a request handled in one task in that task, a refresh
\* that entered its settling delay by none before the delay has passed and
\* by one when it has.
C4_ExactlyOneResponse ==
    /\ lastOp.op \in RequestOps \ {"refresh"} => Len(WithId(out, lastOp.id)) = 1
    /\ lastOp.op = "refresh"
          => IF \E e \in pendingRefresh : e.port = lastOp.port /\ e.id = lastOp.id
             THEN Len(WithId(out, lastOp.id)) = 0
             ELSE Len(WithId(out, lastOp.id)) = 1

\* C5: a task that handles a request posts messages to the requesting port
\* only, and every message it posts with a correlation id carries the id of
\* that request.
C5_ResponsesOnlyToTheRequester ==
    lastOp.op \in RequestOps
        => \A i \in 1..Len(out) :
               /\ out[i].to = lastOp.port
               /\ out[i].msg.id \in {NoId, lastOp.id}

\* C5 witness: with both ports open, a refresh for a provider id without a
\* session has been answered with an error.
C5_Witness ==
    /\ lastOp.op = "refresh"
    /\ ports = {1, 2}
    /\ Len(out) = 1
    /\ out[1].msg.type = "error"
    /\ out[1].msg.id = lastOp.id

\* C6: a connect request for a session that is connecting or connected makes
\* no transport call and changes no client, posts to the requesting port
\* only, and the events it posts are: for a connected session a connected
\* event followed, when the cache is not empty, by one data event whose
\* records are exactly the cached records; for a connecting session none.
C6_ConnectOnBusySessionReportsState ==
    [][ (/\ lastOp'.op = "connect"
         /\ providers[lastOp'.pid] # NoObj
         /\ Busy(obj[providers[lastOp'.pid]]))
        => LET ob == obj[providers[lastOp'.pid]]
               ev == Events(out')
               cached == {ob.snapshot[k] : k \in MapKeys} \ {Absent}
           IN /\ calls' = <<>>
              /\ clients' = clients
              /\ \A i \in 1..Len(out') : out'[i].to = lastOp'.port
              /\ IF ~ob.isConnected THEN ev = <<>>
                 ELSE /\ Len(ev) = IF cached = {} THEN 1 ELSE 2
                      /\ ev[1].msg.type = "connected"
                      /\ cached # {}
                            => /\ ev[2].msg.type = "data"
                               /\ Range(ev[2].msg.data) = cached
                               /\ Len(ev[2].msg.data) = Cardinality(cached) ]_vars

\* C6 witness: the second port has connected to a connected session whose
\* cache holds two records and got the connected event and the data event.
C6_Witness ==
    /\ lastOp.op = "connect"
    /\ lastOp.port = 2
    /\ Len(Events(out)) = 2
    /\ Events(out)[2].msg.type = "data"
    /\ Len(Events(out)[2].msg.data) = 2

Keyed(recs, keyColumn, k) ==
    {i \in 1..Len(recs) :
        /\ ~recs[i].null
        /\ KeyOf(recs[i], keyColumn) # "u"
        /\ StringOf(KeyOf(recs[i], keyColumn)) = k}

\* `after` is `before` with the keyed records of recs put under their keys,
\* a later record of the frame replacing an earlier one of the same key.
Upserted(before, after, recs, keyColumn) ==
    \A k \in MapKeys :
        LET idx == Keyed(recs, keyColumn, k)
        IN after[k] = IF idx = {} THEN before[k]
                      ELSE recs[CHOOSE i \in idx : \A j \in idx : j <= i]

\* The messages are one copy of a `type` event per subscriber of ob and
\* nothing else.
OnePerSubscriber(o, ob, type) ==
    /\ Len(o) = Cardinality(ob.subscribers)
    /\ \A p \in ob.subscribers : Len(PostedTo(o, p)) = 1
    /\ \A i \in 1..Len(o) :
           /\ o[i].msg.type = type
           /\ o[i].msg.id = NoId
           /\ o[i].msg.providerId = ob.providerId

\* C8: a data frame handled by a session in snapshot mode leaves it in
\* snapshot mode, adds the number of its records to snapshotRowsReceived,
\* upserts its records into the cache, and posts to every subscriber one
\* data event that carries the records with isSnapshot true, and nothing
\* else.
C8_SnapshotDataFrame ==
    [][ (/\ lastOp'.op = "frame"
         /\ obj[lastOp'.o].mode = "snapshot"
         /\ ClassifiedData(obj[lastOp'.o], lastOp'.body))
        => LET ob == obj[lastOp'.o]
               nb == obj'[lastOp'.o]
               recs == Positions(lastOp'.body)
           IN /\ nb.mode = "snapshot"
              /\ ~nb.isSnapshotComplete
              /\ nb.snapshotRowsReceived = ob.snapshotRowsReceived + Len(recs)
              /\ nb.updateRowsReceived = ob.updateRowsReceived
              /\ Upserted(ob.snapshot, nb.snapshot, recs, ob.config.keyColumn)
              /\ OnePerSubscriber(out', ob, "data")
              /\ \A i \in 1..Len(out') :
                     out'[i].msg.data = recs /\ out'[i].msg.isSnapshot ]_vars

\* C9: an end-of-snapshot frame handled by a session in snapshot mode moves
\* it to realtime mode with snapshot-complete true and posts to every
\* subscriber one snapshot-complete event, and nothing else, whose rowCount
\* is the number of records of the data frames handled since the last
\* onConnect; the cache is left as it is.
C9_EndOfSnapshotFrame ==
    [][ (/\ lastOp'.op = "frame"
         /\ obj[lastOp'.o].mode = "snapshot"
         /\ IsEndToken(obj[lastOp'.o].config, lastOp'.body))
        => LET ob == obj[lastOp'.o]
               nb == obj'[lastOp'.o]
           IN /\ nb.mode = "realtime"
              /\ nb.isSnapshotComplete
              /\ nb.snapshot = ob.snapshot
              /\ OnePerSubscriber(out', ob, "snapshot-complete")
              /\ \A i \in 1..Len(out') :
                     out'[i].msg.rowCount = cycleRows[lastOp'.o] ]_vars

\* C9 witness: two data frames of one record each and then the sentinel:
\* the snapshot-complete event has rowCount 2 and the cache holds two
\* records.
C9_Witness ==
    /\ lastOp.op = "frame"
    /\ Len(out) >= 1
    /\ out[1].msg.type = "snapshot-complete"
    /\ out[1].msg.rowCount = 2
    /\ cycleRows[lastOp.o] = 2
    /\ SnapshotSize(obj[lastOp.o].snapshot) = 2

\* C10: a data frame handled by a session in realtime mode leaves it in
\* realtime mode, adds the number of its records to updateRowsReceived,
\* upserts its records into the cache (when every key of the frame was
\* cached the cache keeps its size, and getSnapshot returns the records of
\* the frame), and posts to every subscriber one data event that carries the
\* records with isSnapshot false, and nothing else.
C10_RealtimeDataFrame ==
    [][ (/\ lastOp'.op = "frame"
         /\ obj[lastOp'.o].mode = "realtime"
         /\ ClassifiedData(obj[lastOp'.o], lastOp'.body))
        => LET ob == obj[lastOp'.o]
               nb == obj'[lastOp'.o]
               recs == Positions(lastOp'.body)
               keys == {k \in MapKeys : Keyed(recs, ob.config.keyColumn, k) # {}}
           IN /\ nb.mode = "realtime"
              /\ nb.isSnapshotComplete
              /\ nb.updateRowsReceived = ob.updateRowsReceived + Len(recs)
              /\ nb.snapshotRowsReceived = ob.snapshotRowsReceived
              /\ Upserted(ob.snapshot, nb.snapshot, recs, ob.config.keyColumn)
              /\ (\A k \in keys : ob.snapshot[k] # Absent)
                    => SnapshotSize(nb.snapshot) = SnapshotSize(ob.snapshot)
              /\ \A k \in keys : nb.snapshot[k] \in Range(GetSnapshot(nb.snapshot))
              /\ OnePerSubscriber(out', ob, "data")
              /\ \A i \in 1..Len(out') :
                     out'[i].msg.data = recs /\ ~out'[i].msg.isSnapshot ]_vars

\* The trimmed, lower-cased body contains the configured end token
\* (lower-cased) or "success", for a configuration that names an end token.
Sentinel(config, body) ==
    /\ config.snapshotEndToken # ""
    /\ \/ ToLowerCase(config.snapshotEndToken) \in body.words
       \/ "success" \in body.words

\* C11: for a session whose configuration names an end token and whose
\* snapshot is not complete, a frame whose trimmed, lower-cased body contains
\* the token or "success" is handled as end-of-snapshot, whether or not the
\* body is valid JSON: snapshot-complete becomes true, every subscriber gets
\* one snapshot-complete event and nothing else, and the cache and the row
\* counters stay as they are.
C11_SentinelBodyEndsSnapshot ==
    [][ (/\ lastOp'.op = "frame"
         /\ ~obj[lastOp'.o].isSnapshotComplete
         /\ Sentinel(obj[lastOp'.o].config, lastOp'.body))
        => LET ob == obj[lastOp'.o]
               nb == obj'[lastOp'.o]
           IN /\ nb.isSnapshotComplete
              /\ nb.mode = "realtime"
              /\ nb.snapshot = ob.snapshot
              /\ nb.snapshotRowsReceived = ob.snapshotRowsReceived
              /\ nb.updateRowsReceived = ob.updateRowsReceived
              /\ OnePerSubscriber(out', ob, "snapshot-complete") ]_vars

\* C11 witness: a body that is valid JSON and contains "success" but not the
\* configured token has been handled as end-of-snapshot.
C11_Witness ==
    /\ lastOp.op = "frame"
    /\ lastOp.body.json
    /\ lastOp.body.words = {"success"}
    /\ obj[lastOp.o].config.snapshotEndToken = "EOS"
    /\ Len(out) >= 1
    /\ out[1].msg.type = "snapshot-complete"

\* C12: a frame whose body JSON.parse rejects and that is not taken as
\* end-of-snapshot is dropped in every phase: no message is posted, no
\* transport call is made and the session (cache, row counters, mode, flags)
\* and the clients stay as they are.
C12_NonJsonFrameIsIgnored ==
    [][ (/\ lastOp'.op = "frame"
         /\ ~lastOp'.body.json
         /\ ~(/\ ~obj[lastOp'.o].isSnapshotComplete
              /\ Sentinel(obj[lastOp'.o].config, lastOp'.body)))
        => /\ out' = <<>>
           /\ calls' = <<>>
           /\ obj' = obj
           /\ clients' = clients
           /\ providers' = providers ]_vars

\* C12 witness: in realtime mode, with a record cached, a body that is not
\* JSON and holds the end token has been dropped.
C12_Witness ==
    /\ lastOp.op = "frame"
    /\ ~lastOp.body.json
    /\ lastOp.body.words = {"eos"}
    /\ obj[lastOp.o].mode = "realtime"
    /\ obj[lastOp.o].config.snapshotEndToken = "EOS"
    /\ SnapshotSize(obj[lastOp.o].snapshot) > 0
    /\ out = <<>>

\* C13: a data frame with a record that lacks the key field posts no error
\* event and no event that carries that record, and leaves the cache as the
\* frame's other records make it.
C13_KeylessRecordIsAbsorbed ==
    [][ (/\ lastOp'.op = "frame"
         /\ ClassifiedData(obj[lastOp'.o], lastOp'.body)
         /\ \E i \in 1..Len(Positions(lastOp'.body)) :
                /\ ~Positions(lastOp'.body)[i].null
                /\ KeyOf(Positions(lastOp'.body)[i],
                         obj[lastOp'.o].config.keyColumn) = "u")
        => LET ob == obj[lastOp'.o]
               recs == Positions(lastOp'.body)
               keyless == {recs[i] : i \in {j \in 1..Len(recs) :
                              /\ ~recs[j].null
                              /\ KeyOf(recs[j], ob.config.keyColumn) = "u"}}
           IN /\ Upserted(ob.snapshot, obj'[lastOp'.o].snapshot, recs,
                          ob.config.keyColumn)
              /\ \A i \in 1..Len(out') :
                     /\ out'[i].msg.type # "error"
                     /\ Range(out'[i].msg.data) \cap keyless = {} ]_vars

\* The records of a history that carry a key under keyColumn, by position.
KeyedAll(recs, keyColumn) ==
    {i \in 1..Len(recs) : ~recs[i].null /\ KeyOf(recs[i], keyColumn) # "u"}

\* The stringified keys of the records at the positions idx are pairwise
\* distinct.
DistinctKeys(recs, keyColumn, idx) ==
    \A i, j \in idx :
        i # j => StringOf(KeyOf(recs[i], keyColumn)) #
                 StringOf(KeyOf(recs[j], keyColumn))

\* C14: at every moment the cache of a session holds, under each stringified
\* key, the last record with that key that applyUpdatesToSnapshot has
\* visited since the cache was last cleared, and no entry under any other
\* key; getSnapshot returns exactly these records.  Batches of the snapshot
\* phase and of the realtime phase enter the history alike.
C14_CacheIsLatestPerKey ==
    \A o \in ObjIds :
        /\ Upserted(EmptySnapshot, obj[o].snapshot, cycleRecs[o],
                    obj[o].config.keyColumn)
        /\ Range(GetSnapshot(obj[o].snapshot)) =
               {obj[o].snapshot[k] : k \in MapKeys} \ {Absent}
        /\ Len(GetSnapshot(obj[o].snapshot)) = SnapshotSize(obj[o].snapshot)

\* C14 witness: in realtime mode, after {"id":"1","v":10} and
\* {"id":"2","v":20} in the snapshot phase, {"id":1,"v":99} has replaced the
\* record under key "1".
C14_Witness ==
    \E o \in ObjIds :
        /\ obj[o].mode = "realtime"
        /\ cycleRecs[o] = <<Rec("s1", 10), Rec("s2", 20), Rec("n1", 99)>>
        /\ obj[o].snapshot["1"] = Rec("n1", 99)
        /\ SnapshotSize(obj[o].snapshot) = 2

\* C15: a data frame with an empty batch leaves a cache that was cleared and
\* not written since empty; a data frame whose one record is the record
\* applied last leaves the cache exactly as it was.
C15_EmptyAndRepeatedBatch ==
    [][ (/\ lastOp'.op = "frame"
         /\ ClassifiedData(obj[lastOp'.o], lastOp'.body))
        => LET o == lastOp'.o
               recs == Positions(lastOp'.body)
               hist == cycleRecs[o]
           IN /\ (recs = <<>> /\ hist = <<>>)
                    => /\ obj[o].snapshot = EmptySnapshot
                       /\ obj'[o].snapshot = EmptySnapshot
                       /\ GetSnapshot(obj'[o].snapshot) = <<>>
              /\ (Len(recs) = 1 /\ hist # <<>> /\ recs[1] = hist[Len(hist)])
                    => /\ obj'[o].snapshot = obj[o].snapshot
                       /\ GetSnapshot(obj'[o].snapshot) = GetSnapshot(obj[o].snapshot)
                       /\ SnapshotSize(obj'[o].snapshot) = SnapshotSize(obj[o].snapshot) ]_vars

\* C15 witness: a record with a key has been applied twice in a row and is
\* cached once.
C15_Witness ==
    /\ lastOp.op = "frame"
    /\ lastOp.o # NoObj
    /\ cycleRecs[lastOp.o] = <<Rec("s1", 10), Rec("s1", 10)>>
    /\ GetSnapshot(obj[lastOp.o].snapshot) = <<Rec("s1", 10)>>

C17_TransportErrorDisconnectsSession ==
    [][ (/\ lastOp'.op \in {"onError", "close"}
         /\ providers[lastOp'.pid] = lastOp'.o
         /\ obj[lastOp'.o].connection = lastOp'.c)
        => LET ob == obj[lastOp'.o]
               nb == obj'[lastOp'.o]
           IN /\ ~nb.isConnected
              /\ nb.mode \notin {"snapshot", "realtime"}
              /\ providers' = providers
              /\ Len(out') = Cardinality(ob.subscribers)
              /\ \A p \in ob.subscribers : Len(PostedTo(out', p)) = 1
              /\ \A i \in 1..Len(out') :
                     \/ out'[i].msg.type = "disconnected"
                     \/ out'[i].msg.type = "error" /\ out'[i].msg.error # "" ]_vars

\* C18: an error callback of the transport, the loss of the socket and the
\* onDisconnect callback leave the cache of a registered session as it is,
\* and a get-snapshot request for a registered session is answered with
\* exactly the cached records, whatever the state of the transport.
C18_TransportErrorKeepsCache ==
    [][ /\ (/\ lastOp'.op \in {"onError", "close", "onDisconnect"}
            /\ providers[lastOp'.pid] = lastOp'.o)
           => /\ obj'[lastOp'.o].snapshot = obj[lastOp'.o].snapshot
              /\ providers' = providers
        /\ (/\ lastOp'.op = "get-snapshot"
            /\ providers[lastOp'.pid] # NoObj)
           => LET cached == {obj[providers[lastOp'.pid]].snapshot[k] :
                                k \in MapKeys} \ {Absent}
                  rsp == WithId(out', lastOp'.id)
              IN /\ Len(rsp) = 1
                 /\ rsp[1].to = lastOp'.port
                 /\ Range(rsp[1].msg.data) = cached
                 /\ Len(rsp[1].msg.data) = Cardinality(cached)
                 /\ obj' = obj ]_vars

\* C18 witness: the socket of a session with two cached records was lost,
\* the client has not connected again, and a get-snapshot request has been
\* answered with the two records.
C18_Witness ==
    /\ lastOp.op = "get-snapshot"
    /\ lastOp.o # NoObj
    /\ \A c \in ClientIds : clients[c].st # "connected"
    /\ \E c \in ClientIds : clients[c].owner = lastOp.o /\ clients[c].st = "activating"
    /\ SnapshotSize(obj[lastOp.o].snapshot) = 2
    /\ Len(out) = 1
    /\ Len(out[1].msg.data) = 2

\* C19: a refresh request for a registered session calls deactivate on the
\* session's client and leaves the session neither connected nor
\* connecting, with the request waiting for its settling delay; once the
\* delay has passed (and StompJs is available) the session is connecting or
\* connected through a client it holds, a client being activated if none
\* was; an onConnect of a session that was refreshed starts a cycle with an
\* empty cache, a snapshot row counter of 0 and snapshot mode; and the
\* snapshot-complete event of a session that was refreshed carries the
\* number of records of the data frames since its last onConnect.
C19_RefreshRunsFreshCycle ==
    [][ LET o == lastOp'.o
        IN /\ (lastOp'.op = "refresh" /\ providers[lastOp'.pid] # NoObj)
              => /\ o = providers[lastOp'.pid]
                 /\ ~obj'[o].isConnected
                 /\ ~obj'[o].isConnecting
                 /\ obj'[o].mode = "idle"
                 /\ obj'[o].connection = NoClient
                 /\ obj[o].connection # NoClient
                       => /\ [client |-> obj[o].connection, call |-> "deactivate"]
                                \in Range(calls')
                          /\ clients'[obj[o].connection].st \in {"deactivating", "free"}
                 /\ \E e \in pendingRefresh' :
                        e.o = o /\ e.port = lastOp'.port /\ e.id = lastOp'.id
                 /\ WithId(out', lastOp'.id) = <<>>
           /\ (lastOp'.op = "refresh-resume" /\ stompLoaded)
              => /\ Busy(obj'[o])
                 /\ obj'[o].connection # NoClient
                 /\ clients'[obj'[o].connection].owner = o
                 /\ clients'[obj'[o].connection].st \in {"activating", "connected"}
                 /\ ~Busy(obj[o])
                       => /\ calls' = <<[client |-> obj'[o].connection,
                                         call |-> "activate"]>>
                          /\ clients[obj'[o].connection].st = "free"
                 /\ Len(WithId(out', lastOp'.id)) = 1
           /\ (lastOp'.op = "onConnect" /\ o \in disconnectCalled)
              => /\ obj'[o].mode = "snapshot"
                 /\ obj'[o].snapshot = EmptySnapshot
                 /\ obj'[o].snapshotRowsReceived = 0
                 /\ ~obj'[o].isSnapshotComplete
                 /\ cycleRows'[o] = 0
           /\ (/\ lastOp'.op = "frame"
               /\ o \in disconnectCalled
               /\ \E i \in 1..Len(out') : out'[i].msg.type = "snapshot-complete")
              => \A i \in 1..Len(out') : out'[i].msg.rowCount = cycleRows[o] ]_vars

\* C19 witness: a registered session that was refreshed after it had
\* received an update in realtime mode has connected again, received one
\* record and completed the snapshot of the new cycle with rowCount 1.
C19_Witness ==
    /\ lastOp.op = "frame"
    /\ lastOp.o \in disconnectCalled
    /\ providers[lastOp.pid] = lastOp.o
    /\ obj[lastOp.o].updateRowsReceived = 1
    /\ Len(out) >= 1
    /\ out[1].msg.type = "snapshot-complete"
    /\ out[1].msg.rowCount = 1
    /\ SnapshotSize(obj[lastOp.o].snapshot) = 1

\* C20: a disconnect, refresh, get-snapshot or get-statistics request for a
\* provider id without a session is answered by exactly one message, posted
\* to the requesting port with the id of the request and a non-empty error.
C20_UnknownProviderIsAnError ==
    [][ (/\ lastOp'.op \in {"disconnect", "refresh", "get-snapshot", "get-statistics"}
         /\ providers[lastOp'.pid] = NoObj)
        => /\ Len(out') = 1
           /\ out'[1].to = lastOp'.port
           /\ out'[1].msg.id = lastOp'.id
           /\ out'[1].msg.error # "" ]_vars

\* C23: a disconnect request for a provider id that has no session (none
\* was ever created, or an earlier disconnect removed it) changes nothing in
\* the worker: the registry, the ProviderConnection objects, the clients
\* and the suspended refreshes stay as they are and no transport call is
\* made; the one message posted is the success response to the requester.
C23_DisconnectIsIdempotent ==
    [][ (/\ lastOp'.op = "disconnect"
         /\ providers[lastOp'.pid] = NoObj)
        => /\ providers' = providers
           /\ obj' = obj
           /\ clients' = clients
           /\ pendingRefresh' = pendingRefresh
           /\ ports' = ports
           /\ calls' = <<>>
           /\ out' = <<[to |-> lastOp'.port, msg |-> Response(lastOp'.id)]>>
           /\ out'[1].msg.success
           /\ out'[1].msg.error = "" ]_vars

\* C23 witness: a second disconnect request has been answered with success
\* while the client of the session that the first one tore down is still
\* waiting for the receipt of its DISCONNECT.
C23_Witness ==
    /\ lastOp.op = "disconnect"
    /\ lastOp.o = NoObj
    /\ providers[lastOp.pid] = NoObj
    /\ \E c \in ClientIds :
           /\ clients[c].st = "deactivating"
           /\ obj[clients[c].owner].providerId = lastOp.pid
    /\ out = <<[to |-> lastOp.port, msg |-> Response(lastOp.id)]>>

\* C24: a connect request for a provider id that already has a session
\* leaves the session in the registry with the configuration it was created
\* with, whatever configuration the request carries, and the requesting
\* port is a subscriber of the session afterwards, next to the subscribers
\* it had.
C24_FirstWriterWins ==
    [][ (/\ lastOp'.op = "connect"
         /\ providers[lastOp'.pid] # NoObj)
        => LET o == providers[lastOp'.pid]
           IN /\ providers' = providers
              /\ obj'[o].config = obj[o].config
              /\ obj'[o].providerId = obj[o].providerId
              /\ obj'[o].subscribers = obj[o].subscribers \cup {lastOp'.port} ]_vars

\* C24 witness: the second port has been attached by a connect request
\* whose configuration differs from the one the session was created with.
C24_Witness ==
    /\ lastOp.op = "connect"
    /\ providers[lastOp.pid] # NoObj
    /\ obj[providers[lastOp.pid]].subscribers = {1, 2}
    /\ lastOp.port = 2
    /\ lastOp.config = Config("", "positionId")
    /\ obj[providers[lastOp.pid]].config = Config("EOS", "id")

\* The phase of a session: connecting while its connect() waits for the
\* transport, otherwise its mode (idle, snapshot, realtime).
Phase(ob) == IF ob.isConnecting THEN "connecting" ELSE ob.mode

\* A move back in the order connecting, snapshot, realtime.
Backward(from, to) ==
    \/ from = "realtime" /\ to \in {"snapshot", "connecting"}
    \/ from = "snapshot" /\ to = "connecting"

\* C25: a task that takes a session from realtime back to snapshot or
\* connecting, or from snapshot back to connecting, posts a disconnected or
\* an error event: the phase of a session never moves back without such an
\* interruption.
C25_PhaseOnlyMovesForward ==
    [][ \A o \in ObjIds :
          (/\ obj[o].providerId # ""
           /\ obj'[o].providerId = obj[o].providerId
           /\ Backward(Phase(obj[o]), Phase(obj'[o])))
          => \E i \in 1..Len(out') :
                 out'[i].msg.type \in {"disconnected", "error"} ]_vars

\* The callbacks of the transport.
TransportOps == {"onConnect", "onDisconnect", "close", "onError", "frame"}

\* The messages of `o` posted to `port`, in order, without their addressee.
Received(o, port) ==
    [i \in 1..Len(PostedTo(o, port)) |-> PostedTo(o, port)[i].msg]

\* C26: a frame is handled in a task of its own, in which every subscriber
\* of the session is posted at most one event, classified from that frame
\* alone; and in every task of the transport any two subscribers of the
\* session are posted the same events in the same order.
C26_SameOrderForEveryConsumer ==
    [][ lastOp'.op \in TransportOps
        => LET ob == obj[lastOp'.o]
               body == lastOp'.body
           IN /\ \A p, q \in ob.subscribers :
                     Received(out', p) = Received(out', q)
              /\ lastOp'.op = "frame"
                    => \A p \in ob.subscribers :
                         /\ Len(Received(out', p)) <= 1
                         /\ \A i \in 1..Len(Received(out', p)) :
                              LET m == Received(out', p)[i]
                              IN /\ m.type \in {"snapshot-complete", "data", "error"}
                                 /\ m.type = "snapshot-complete"
                                       => IsEndToken(ob.config, body)
                                 /\ m.type = "data"
                                       => /\ body.json
                                          /\ m.data = Positions(body)
                                 /\ m.type = "error" => body.json ]_vars

\* C26 witness: a data frame has been broadcast to the two subscribers of a
\* session, the same event to each.
C26_Witness ==
    /\ lastOp.op = "frame"
    /\ obj[lastOp.o].subscribers = {1, 2}
    /\ Len(out) = 2
    /\ out[1].to = 1
    /\ out[2].to = 2
    /\ out[1].msg = out[2].msg
    /\ out[1].msg.type = "data"
    /\ out[1].msg.data = Positions(lastOp.body)

\* The ports attached to a provider id: the subscribers of the session the
\* registry holds for it.
Attached(pid) ==
    IF providers[pid] = NoObj THEN {} ELSE obj[providers[pid]].subscribers

\* C27: every event a callback of the transport emits for a provider id is
\* posted once to each port attached to that provider id when the callback
\* runs, and to no other port.
C27_EventsReachExactlyTheAttached ==
    [][ lastOp'.op \in TransportOps
        => /\ \A i \in 1..Len(out') :
                  /\ out'[i].msg.id = NoId
                  /\ out'[i].msg.providerId = lastOp'.pid
                  /\ out'[i].to \in Attached(lastOp'.pid)
           /\ out' # <<>>
                 => \A p \in Attached(lastOp'.pid) :
                        Received(out', p) = <<out'[1].msg>> ]_vars

\* The sessions a disconnect request has torn down and that a callback or a
\* suspended refresh still holds: the objects that are in use and that the
\* registry does not hold (handleDisconnect alone removes an entry).
TornDown == {o \in ObjIds : /\ obj[o] # BlankObj
                            /\ \A pid \in ProviderIds : providers[pid] # o}

\* C28: a session that a disconnect request has torn down has no client
\* that is connected or connecting to the broker.
C28_TornDownSessionHasNoTransport ==
    \A o \in TornDown : ActiveClients(clients, o) = {}

\* C21: a request is posted to the worker once, when it is sent; the first
\* message with its id settles it, rejected when the message carries an
\* error and resolved otherwise, and the timer settles it with the timeout
\* error when no such message has arrived before; a settled request stays
\* as it settled, no task posts the request again, a request has a pending
\* entry (a listener) exactly while it is unsettled, and every request that
\* was sent settles.
C21_RequestSettlesOnce ==
    /\ [][ LET op == consumer'.op
           IN /\ op.op = "send"
                 => /\ consumer'.posted = <<[id |-> op.id, type |-> consumer'.type[op.id]]>>
                    /\ consumer'.promise[op.id] = "pending"
              /\ (op.op = "deliver" /\ op.id \in RequestIds
                  /\ consumer.promise[op.id] = "pending")
                 => consumer'.promise[op.id] =
                        IF op.msg.error # "" THEN "rejected" ELSE "resolved"
              /\ (op.op = "timeout" /\ consumer.promise[op.id] = "pending")
                 => consumer'.promise[op.id] = "timeout"
              /\ op.op \in {"deliver", "timeout"} => consumer'.posted = <<>>
              /\ \A id \in RequestIds :
                    /\ consumer.promise[id] \notin {"unsent", "pending"}
                          => consumer'.promise[id] = consumer.promise[id]
                    /\ consumer.promise[id] = "pending"
                          => (consumer'.promise[id] # "pending"
                                 => op.id = id /\ op.op \in {"deliver", "timeout"})
                    /\ (id \in consumer'.pendingMessages)
                          <=> (consumer'.promise[id] = "pending") ]_vars
    /\ \A id \in RequestIds :
           (consumer.promise[id] = "pending")
               ~> (consumer.promise[id] \in {"resolved", "rejected", "timeout"})

\* C21 witness: of two requests the first was resolved by its response,
\* its timer has fired since, and the second has just been settled by its
\* timer; no pending entry is left.
C21_Witness ==
    /\ consumer.op.op = "timeout"
    /\ consumer.op.id = 2
    /\ consumer.promise[1] = "resolved"
    /\ consumer.promise[2] = "timeout"
    /\ consumer.timers = {}
    /\ consumer.pendingMessages = {}

\* C22: a message that carries the id of a request that has timed out
\* settles nothing, leaves the client state as it is and emits no event.
C22_LateMessageIsIgnored ==
    [][ (/\ consumer'.op.op = "deliver"
         /\ consumer'.op.id \in RequestIds
         /\ consumer.promise[consumer'.op.id] = "timeout")
        => /\ consumer'.promise = consumer.promise
           /\ consumer'.clientState = consumer.clientState
           /\ consumer'.pendingMessages = consumer.pendingMessages
           /\ consumer'.emitted = <<>> ]_vars

\* C29: every callback of the statistics interval recomputes the
\* messages-per-second figure and posts it to every connection as a status
\* event, and the figure is 0 after a callback before which no message has
\* arrived since the callback before.
C29_RateIsRecomputedEveryPeriod ==
    [][ stompWorker'.op = "tick"
        => /\ \A c \in stompWorker.connections :
                  \E i \in 1..Len(stompWorker'.out) :
                      /\ stompWorker'.out[i].to = c
                      /\ stompWorker'.out[i].msg.type = "status"
                      /\ stompWorker'.out[i].msg.messagesPerSecond =
                             stompWorker'.stats.messagesPerSecond
           /\ stompWorker'.stats.lastSecondCount = 0
           /\ stompWorker.quiet => stompWorker'.stats.messagesPerSecond = 0 ]_vars

\* C30: the listener topic of a stream is "/snapshot/{dataType}/{clientId}"
\* and its trigger destination is the listener topic followed by "/{rate}"
\* and, exactly when the configuration has a batch size other than 0, by
\* "/{batchSize}"; dataType and rate are those of the configuration, or
\* "positions" and 1000 where it has none, and clientId is the one id of
\* the attempt.
C30_DestinationsFollowTheConvention ==
    stream.clientId # ""
    => LET dataType == IF stream.builder = "StompClientService" THEN "positions"
                       ELSE IF stream.config.dataType # "" THEN stream.config.dataType
                       ELSE "positions"
           rate == IF stream.config.messageRate # 0 THEN stream.config.messageRate
                   ELSE 1000
           topic == "/snapshot/" \o dataType \o "/" \o stream.clientId
       IN /\ stream.listenerTopic = topic
          /\ stream.triggerDestination =
                 IF stream.config.batchSize # 0
                 THEN topic \o "/" \o ToString(rate) \o "/"
                          \o ToString(stream.config.batchSize)
                 ELSE topic \o "/" \o ToString(rate)

\* C35: in every state of a ProviderConnection, mode is 'idle' exactly when
\* isConnected is false, mode 'realtime' implies isSnapshotComplete, and
\* isConnecting and isConnected are never both true.
C35_FlagsAgree ==
    \A o \in ObjIds :
        /\ (obj[o].mode = "idle") <=> ~obj[o].isConnected
        /\ obj[o].mode = "realtime" => obj[o].isSnapshotComplete
        /\ ~(obj[o].isConnecting /\ obj[o].isConnected)

\* C36: between two transport connects of a session the snapshot-complete
\* event is posted at most once to a consumer and no data event with
\* isSnapshot = true is posted after it: once the event has been posted, no
\* task of the session other than its next onConnect posts either of them,
\* also not for a frame that contains the end token; and the task that
\* posts the event posts it once to each subscriber.
C36_SnapshotCompletesOncePerCycle ==
    [][ \A o \in ObjIds :
          (lastOp'.o = o /\ lastOp'.op # "onConnect")
          => /\ o \in cycleComplete
                => \A i \in 1..Len(out') :
                       /\ out'[i].msg.type # "snapshot-complete"
                       /\ ~(out'[i].msg.type = "data" /\ out'[i].msg.isSnapshot)
             /\ \A port \in Ports :
                    Len(SelectSeq(out', LAMBDA m :
                            m.to = port /\ m.msg.type = "snapshot-complete")) <= 1 ]_vars

\* C36 witness: after the snapshot of its cycle was completed, the session
\* has handled a frame that contains the end token and has posted it as an
\* update.
C36_Witness ==
    /\ lastOp.op = "frame"
    /\ lastOp.o \in cycleComplete
    /\ IsEndToken(obj[lastOp.o].config, lastOp.body)
    /\ Len(out) >= 1
    /\ \A i \in 1..Len(out) : out[i].msg.type = "data" /\ ~out[i].msg.isSnapshot

\* Whether the task `op` of a session in state `ob` broadcasts an event.
Broadcasts(op, ob) ==
    \/ op.op \in {"onConnect", "onDisconnect", "onError"}
    \/ /\ op.op = "frame"
       /\ \/ ~ob.isSnapshotComplete /\ IsEndToken(ob.config, op.body)
          \/ op.body.json

\* C31: once the channel of a consumer has failed, a task of the session
\* that broadcasts an event posts nothing to that consumer and leaves it
\* out of the subscribers, while every other subscriber stays a subscriber
\* (as long as the session object is in use) and is posted the event.
C31_FailedConsumerIsDropped ==
    [][ (lastOp'.o # NoObj /\ Broadcasts(lastOp', obj[lastOp'.o]))
        => LET o == lastOp'.o
           IN /\ \A port \in channel.failed :
                     /\ port \notin obj'[o].subscribers
                     /\ PostedTo(out', port) = <<>>
              /\ \A port \in obj[o].subscribers \ channel.failed :
                     /\ obj'[o] # BlankObj => port \in obj'[o].subscribers
                     /\ Len(PostedTo(out', port)) = 1 ]_vars

\* A message of the enhanced worker as the consumer that sent request
\* `request` with the correlation id `id` reads it.
AsRead(msg, id, request) ==
    WorkerMsg(IF msg.id = id /\ id # NoId THEN request ELSE NoRequest,
              msg.type, msg.providerId, msg.error)

\* The consumer after the messages `posted` have arrived, in order.
RECURSIVE DeliverAll(_, _, _, _)
DeliverAll(s, posted, id, request) ==
    IF posted = <<>> THEN s
    ELSE DeliverAll(OnMessage(s, AsRead(Head(posted).msg, id, request)),
                    Tail(posted), id, request)

\* C37: a consumer that attaches to a session in the realtime phase is in
\* mode 'realtime' once the messages the worker posts to it on attach have
\* arrived.
C37_LateAttacherIsInRealtime ==
    [][ (/\ lastOp'.op = "connect"
         /\ providers[lastOp'.pid] # NoObj
         /\ obj[providers[lastOp'.pid]].isConnected
         /\ obj[providers[lastOp'.pid]].mode = "realtime"
         /\ lastOp'.port \notin obj[providers[lastOp'.pid]].subscribers)
        => LET sent == Request(ConsumerInit("StompClientEnhancedService"),
                               "connect", 1)
               s == DeliverAll(sent, PostedTo(out', lastOp'.port), lastOp'.id, 1)
           IN /\ obj'[providers[lastOp'.pid]].mode = "realtime"
              /\ s.clientState.mode = "realtime" ]_vars

\* The StompJs clients of the StompSharedWorker that are connected or
\* connecting.
ActiveStompClients(w) ==
    {c \in ClientIds : w.sclients[c].st \in {"activating", "connected"}}

\* The messages of `o` posted to `port` with the id `id`.
Answers(o, port, id) == SelectSeq(o, LAMBDA m : m.to = port /\ m.msg.id = id)

SharedCallbacks ==
    {"onStompConnect", "onStompDisconnect", "onStompError", "onWebSocketClose",
     "onWebSocketError"}

\* C32: whatever connect requests the ports send, the StompSharedWorker has
\* at most one STOMP client that is connected or connecting.
C32_OneSharedTransport ==
    Cardinality(ActiveStompClients(stompWorker)) <= 1

\* C33: a disconnect, send, config or unknown request with id X of a port
\* that is in the connections Map is answered in its task by exactly one
\* message with id X, posted to that port; a connect request is answered
\* in its task when the client is connected and otherwise by the first
\* callback of the client it constructs that answers, and no later
\* callback of that client posts a message with id X again.
C33_OneAnswerPerSharedRequest ==
    [][ /\ (/\ stompWorker'.op \in {"disconnect", "send", "config", "unknown"}
            /\ stompWorker'.last.port \in stompWorker.connections)
           => /\ Len(Answers(stompWorker'.out, stompWorker'.last.port,
                             stompWorker'.last.id)) = 1
              /\ \A i \in 1..Len(stompWorker'.out) :
                     stompWorker'.out[i].msg.id = stompWorker'.last.id
                        => stompWorker'.out[i].to = stompWorker'.last.port
        /\ (/\ stompWorker'.op = "connect"
            /\ stompWorker'.last.port \in stompWorker.connections)
           => Len(Answers(stompWorker'.out, stompWorker'.last.port,
                          stompWorker'.last.id))
                  = IF Connected(stompWorker, stompWorker.stompClient)
                    THEN 1 ELSE 0
        /\ (/\ stompWorker'.op \in SharedCallbacks
            /\ stompWorker.sclients[stompWorker'.last.arg].answered)
           => Answers(stompWorker'.out,
                      stompWorker.sclients[stompWorker'.last.arg].connectionId,
                      stompWorker.sclients[stompWorker'.last.arg].messageId)
                  = <<>> ]_vars

\* C39: a task that empties the connections Map leaves the worker's STOMP
\* client neither connected nor connecting, and a disconnect request that
\* leaves a connection in the Map changes no client.
C39_LastPortDeactivates ==
    [][ /\ (stompWorker.connections # {} /\ stompWorker'.connections = {})
           => stompWorker'.stompClient \notin ActiveStompClients(stompWorker')
        /\ (stompWorker'.op = "disconnect" /\ stompWorker'.connections # {})
           => stompWorker'.sclients = stompWorker.sclients ]_vars

\* C34: a subscribe or send request while stompConnected is false, and an
\* unsubscribe request for an id the subscriptions Map does not hold, post
\* one message, an error with the id of the request to the requesting
\* port, and change neither the subscriptions Map nor the subscriptions Set
\* of a connection.
C34_MisuseIsAnErrorToTheRequester ==
    [][ (\/ /\ stompWorker'.op \in {"subscribe", "send"}
            /\ ~stompWorker.stompConnected
         \/ /\ stompWorker'.op = "unsubscribe"
            /\ stompWorker.subscriptions[stompWorker'.last.arg] = NoSub)
        => /\ stompWorker'.out =
                  <<[to |-> stompWorker'.last.port,
                     msg |-> SharedMsg(stompWorker'.last.id, "error")]>>
           /\ stompWorker'.subscriptions = stompWorker.subscriptions
           /\ stompWorker'.portSubs = stompWorker.portSubs ]_vars

\* C38: a MESSAGE frame the broker delivers on a subscription whose port is
\* in the connections Map is posted once, to that port, and to no other
\* port.
C38_MessageGoesOnceToItsSubscriber ==
    [][ (/\ stompWorker'.op = "message"
         /\ stompWorker.subscriptions[stompWorker'.last.arg].connectionId
                \in stompWorker.connections)
        => /\ Len(stompWorker'.out) = 1
           /\ stompWorker'.out[1].to =
                  stompWorker.subscriptions[stompWorker'.last.arg].connectionId
           /\ stompWorker'.out[1].msg.type = "message" ]_vars

\* C40: in the StompSharedWorker over a WebSocket a reconnect is scheduled
\* only by the close of a socket the worker did not close itself; once the
\* last port has disconnected and the worker has closed the socket, no
\* reconnect timer is pending, and none is set and no WebSocket is
\* constructed until a port sends connect; at most one reconnect timer is
\* pending at any time.
C40_ReconnectOnlyAfterLoss ==
    [][ /\ (/\ socketWorker'.op = "close"
            /\ "setTimeout" \in Range(socketWorker'.calls))
           => socketWorker.readyState[socketWorker'.socket] # "CLOSING"
        /\ socketWorker'.released => socketWorker'.timers = 0
        /\ (socketWorker.released /\ socketWorker'.released)
           => /\ "setTimeout" \notin Range(socketWorker'.calls)
              /\ "new WebSocket" \notin Range(socketWorker'.calls)
        /\ socketWorker'.timers <= 1 ]_vars

====
